---- MODULE Spec2Model ----
(***************************************************************************)
(* Model of the route handlers of src/src/actors/groupMedia/router.ts:     *)
(* one handler invocation on one page (specification Spec), and the URL    *)
(* router (specification SpecRoute).                                       *)
(*                                                                         *)
(* Field values are tokens that record where a value came from: "P" is a   *)
(* value read from an embedded payload, "D" one read from the DOM (static  *)
(* markup or live page), "U" one read from the URL, "" the empty string,   *)
(* Null and Undefined the two JavaScript nullish values.                   *)
(***************************************************************************)
EXTENDS Integers, Sequences, FiniteSets, TLC

\* ------------------------------------------------------------------ bounds
\* The largest number of list items a page ever reveals in its container.
MaxItems == 3
\* The largest outputMaxEntries the input sets (it may also be absent).
MaxEntries == 2

\* ------------------------------------------------------------------ values
Null == "null"
Undefined == "undefined"

\* d == null
Nullish(v) == v \in {Null, Undefined}
\* !d, for the strings and nullish values of the records
Falsy(v) == v \in {Null, Undefined, ""}
\* a ?? b
Coalesce(a, b) == IF Nullish(a) THEN b ELSE a
Range(s) == {s[i] : i \in 1..Len(s)}

\* The elements of the set S of naturals in ascending order (document order
\* of the container's children).
RECURSIVE Ascending(_)
Ascending(S) ==
    IF S = {} THEN << >>
    ELSE LET m == CHOOSE x \in S : \A y \in S : x <= y
         IN  <<m>> \o Ascending(S \ {m})

\* ------------------------------------------------------------------ state
VARIABLES
    label,            \* the route handler invoked (handlerLabel of the matched route)
    outputMaxEntries, \* input.outputMaxEntries as a set, empty when null or absent
    page,             \* the visited page: what its markup holds, fixed for the visit
    pc,               \* the await the handler is suspended at
    error,            \* "none", "external" (a browser or network call rejected),
                      \* "thrown" (the handler's own code threw)
    errorLogged,      \* ctx.log.error was called
    data,             \* photoData / videoData / albumData, the partial record
    afterPayload,     \* the partial record as the payload stage returned it
    local,            \* the handler's other locals that reach the entry
    calls,            \* the page, DOM, network and dataset operations invoked, in order
    reqQueue,         \* the urls given to reqQueue.addRequests, in order
    dataset,          \* the entries given to ctx.actor.pushData, with their masks
    itemsCount,       \* let itemsCount
    containerEl,      \* containerEl.node, Null when no common ancestor was found
    children,         \* number of elements now in the container (elements 1..children)
    processed,        \* infiniteScroll: the elements seen in earlier ticks
    newEls,           \* newElsHandle: the batch handed to the callback
    links,            \* const links
    shouldContinue,   \* infiniteScroll: cleared by stopFn
    tick,             \* number of scrolls triggered so far
    handed,           \* per element, how many batches it was part of
    discovered,       \* per tick, the links extracted in that tick
    url,              \* router: the URL of the request being routed
    routePc,          \* router: "queued", then "routed" or "skipped", then "handled"
    routeLabel,       \* router: the handlerLabel selected, Null when no route matches
    groups,           \* router: the named groups the selected handler reads
    invocations,      \* concurrent handlers: per invocation, its page and its locals
    counterCells,     \* concurrent handlers: the itemsCount variables that exist
    sharedQueue,      \* concurrent handlers: the default request queue, with who added
    records,          \* concurrent handlers: per invocation, the entries it pushed
    intervalId,       \* popup timer: "none", "set" or "cleared"
    isClosed,         \* popup timer: page.isClosed()
    outcome,          \* popup timer: how far the wrapped handler got
    ticks,            \* popup timer: the interval callbacks started, in order
    timestampRaw,     \* timestamp: the tooltip text read from the page
    rawParts,         \* timestamp: the parts the tooltip text was written from
    timestamp,        \* timestamp: const timestamp
    stampPc,          \* timestamp: "raw", then "resolved" and "done", or "failed"
    stampEmitted,     \* timestamp: the handler went on to push its entry
    statsDom,         \* stat parser: the texts of the page
    postStats,        \* stat parser: what getPostStats returned
    statsPc,          \* stat parser: "dom", then "done"
    walkRoot,         \* payload walk: the structure given to walkFilter
    walkFilterFn,     \* payload walk: the filter function given to walkFilter
    walkQueue,        \* payload walk: const queue
    walkResults,      \* payload walk: const results
    walkPc,           \* payload walk: "called", "loop", then "returned"
    scriptEls,        \* payload search: the texts of the page's script elements
    searchFilter,     \* payload search: the filter given to searchFbPayloads
    toParse,          \* payload search: the prefiltered texts not yet mapped
    scriptCandidates, \* payload search: const scriptCandidates, as far as mapped
    matchedPayloads,  \* payload search: what page.evaluate returned
    searchPc,         \* payload search: "called", "map", then "resolved" or "rejected"
    callerPc          \* payload search: "awaiting", then "continues" or "threw"

handlerVars == <<label, outputMaxEntries, page, pc, error, errorLogged, data,
                 afterPayload, local, calls, reqQueue, dataset, itemsCount, containerEl,
                 children, processed, newEls, links, shouldContinue, tick, handed,
                 discovered>>
routeVars == <<url, routePc, routeLabel, groups>>
pairVars == <<invocations, counterCells, sharedQueue, records>>
timerVars == <<intervalId, isClosed, outcome, ticks>>
stampVars == <<timestampRaw, rawParts, timestamp, stampPc, stampEmitted>>
statsVars == <<statsDom, postStats, statsPc>>
walkVars == <<walkRoot, walkFilterFn, walkQueue, walkResults, walkPc>>
searchVars == <<scriptEls, searchFilter, toParse, scriptCandidates, matchedPayloads,
                searchPc, callerPc>>
restVars == <<timerVars, stampVars, statsVars, walkVars, searchVars>>
nonTimerVars == <<handlerVars, routeVars, pairVars, stampVars, statsVars, walkVars,
                 searchVars>>
nonStampVars == <<handlerVars, routeVars, pairVars, timerVars, statsVars, walkVars,
                 searchVars>>
nonStatsVars == <<handlerVars, routeVars, pairVars, timerVars, stampVars, walkVars,
                 searchVars>>
nonWalkVars == <<handlerVars, routeVars, pairVars, timerVars, stampVars, statsVars,
                 searchVars>>
nonSearchVars == <<handlerVars, routeVars, pairVars, timerVars, stampVars, statsVars,
                  walkVars>>
auxVars == <<pairVars, restVars>>
vars == <<handlerVars, routeVars, auxVars>>

scrollVars == <<itemsCount, containerEl, children, processed, newEls, links,
                shouldContinue, tick, handed, discovered>>
recordVars == <<data, afterPayload, local>>

Paginating == {"FB_GROUP_MEDIA_TAB", "FB_MEDIA_ALBUM"}
Labels == {"FB_GROUP", "FB_GROUP_MEDIA", "FB_GROUP_MEDIA_TAB", "FB_MEDIA_PHOTO",
           "FB_MEDIA_VIDEO", "FB_MEDIA_ALBUM"}

NoRecord == [f \in {} |-> Null]
NoLocal == [groupId |-> Null, imageFullSizeUrl |-> Null, description |-> Null,
            authorProfileImageThumbUrl |-> Null]

\* ------------------------------------------------------------------ inputs
\* The most elements the tab selectors match on a group's media page.
MaxTabs == 3
\* The largest number of list items on a page that also carries payload scripts.
MaxRichItems == 1

\* outputMaxEntries is a set: empty when null or absent, {n} when set to n.
MaxEntriesInputs == {{}} \cup {{n} : n \in 0..MaxEntries}

\* scripts:   some script block passes the prefilter (its text contains "result")
\* container: the link elements of the list have a common ancestor
\* items:     the number of elements the container holds once all are revealed
Pages(l) ==
    IF l \in {"FB_MEDIA_PHOTO", "FB_MEDIA_VIDEO"}
    THEN [scripts : BOOLEAN, container : {FALSE}, items : {0}]
    ELSE IF l = "FB_GROUP"
    THEN [scripts : {FALSE}, container : {FALSE}, items : {0}]
    ELSE IF l = "FB_GROUP_MEDIA"
    THEN [scripts : {FALSE}, container : {FALSE}, items : 0..MaxTabs]
    ELSE {p \in [scripts : IF l = "FB_MEDIA_ALBUM" THEN BOOLEAN ELSE {FALSE},
                 container : BOOLEAN, items : 0..MaxItems] :
            /\ ~p.container => p.items = 0
            /\ p.scripts => p.items <= MaxRichItems}

\* ------------------------------------------------------------------ paginator
\* if (outputMaxEntries != null && itemsCount > outputMaxEntries) stopFn();
StopSignalledAtOrAbove(max, count) == \E n \in max : count >= n
StopNeverSignalled(max, count) == FALSE
StopSignalled(max, count) == \E n \in max : count > n

\* reqQueue.addRequests(links.map((url) => ({ url })))
addRequestsBuffered(queue, ls) == queue
addRequests(queue, ls) == queue \o ls

\* if (!containerEl?.node) { ctx.log.error(...); return; }
ContainerNeverMissing(node) == FALSE
ContainerMissing(node) == Nullish(node)

\* infiniteScroll's diff: the container's elements not seen in an earlier tick.
NewChildrenFromScratch(n, seen) == Ascending(1..n)
NewChildren(n, seen) == Ascending((1..n) \ seen)

\* itemsCount += links.length
itemsCountSet(count, ls) == Len(ls)
itemsCountAdded(count, ls) == count + Len(ls)

\* els.reduce(...): one href per element that is a link or holds one; `withLink`
\* are the elements for which linkEl is found.
ExtractLinks(els, withLink) == SelectSeq(els, LAMBDA e : e \in withLink)

\* Where the handler goes on when infiniteScroll has returned: the album handler
\* builds and pushes its entry, the tab handler is finished.
AfterScrollReturns(l) == "done"
AfterScroll(l) == IF l = "FB_MEDIA_ALBUM" THEN "push" ELSE "done"

\* getCommonAncestorFromSelector(linkSelector), then the check of its node.
LocateContainer ==
    /\ pc = "locate"
    /\ LET node == IF page.container THEN "node" ELSE Null IN
       /\ containerEl' = node
       /\ IF ContainerMissing(node)
          THEN /\ errorLogged' = TRUE
               /\ pc' = "done"
               /\ UNCHANGED children
          ELSE /\ pc' = "scroll"
               /\ \E n \in 0..page.items : children' = n
               /\ UNCHANGED errorLogged
    /\ itemsCount' = 0
    /\ calls' = Append(calls, "getCommonAncestorFromSelector")
    /\ UNCHANGED <<routeVars, auxVars, label, outputMaxEntries, page, error, recordVars, reqQueue, dataset,
                   processed, newEls, links, shouldContinue, tick, handed, discovered>>

\* infiniteScroll: scrollIntoView of the last element starts a tick.
Scroll ==
    /\ pc = "scroll"
    /\ tick' = tick + 1
    /\ discovered' = Append(discovered, {})
    /\ calls' = Append(calls, "scrollIntoView")
    /\ pc' = "wait"
    /\ UNCHANGED <<routeVars, auxVars, label, outputMaxEntries, page, error, errorLogged, recordVars,
                   reqQueue, dataset, itemsCount, containerEl, children, processed,
                   newEls, links, shouldContinue, handed>>

\* waitAfterInfiniteScroll: while it waits the page may reveal more elements.
WaitAfterScroll ==
    /\ pc = "wait"
    /\ \E n \in children..page.items : children' = n
    /\ pc' = "diff"
    /\ UNCHANGED <<routeVars, auxVars, label, outputMaxEntries, page, error, errorLogged, recordVars, calls,
                   reqQueue, dataset, itemsCount, containerEl, processed, newEls, links,
                   shouldContinue, tick, handed, discovered>>

\* infiniteScroll: the new elements are collected and handed to the callback; a
\* tick that finds none ends the run.
Diff ==
    /\ pc = "diff"
    /\ LET batch == NewChildren(children, processed) IN
       /\ newEls' = batch
       /\ processed' = processed \cup Range(batch)
       /\ handed' = [e \in DOMAIN handed |->
                        IF e \in Range(batch) THEN handed[e] + 1 ELSE handed[e]]
       /\ pc' = IF batch = << >> THEN AfterScroll(label) ELSE "links"
    /\ UNCHANGED <<routeVars, auxVars, label, outputMaxEntries, page, error, errorLogged, recordVars, calls,
                   reqQueue, dataset, itemsCount, containerEl, children, links,
                   shouldContinue, tick, discovered>>

\* The callback up to its second await: newElsHandle.evaluate(...) resolves with
\* the links, itemsCount += links.length, and addRequests is called.
GetLinks ==
    /\ pc = "links"
    /\ \E withLink \in SUBSET Range(newEls) :
          /\ links' = ExtractLinks(newEls, withLink)
          /\ itemsCount' = itemsCountAdded(itemsCount, links')
          /\ discovered' = [discovered EXCEPT ![tick] = Range(links')]
    /\ pc' = "enqueue"
    /\ UNCHANGED <<routeVars, auxVars, label, outputMaxEntries, page, error, errorLogged, recordVars, calls,
                   reqQueue, dataset, containerEl, children, processed, newEls,
                   shouldContinue, tick, handed>>

\* The rest of the callback: addRequests resolves, then the stop check.
Enqueue ==
    /\ pc = "enqueue"
    /\ reqQueue' = addRequests(reqQueue, links)
    /\ calls' = Append(calls, "addRequests")
    /\ shouldContinue' = IF StopSignalled(outputMaxEntries, itemsCount)
                         THEN FALSE ELSE shouldContinue
    /\ pc' = IF shouldContinue' THEN "scroll" ELSE "finalWait"
    /\ UNCHANGED <<routeVars, auxVars, label, outputMaxEntries, page, error, errorLogged, recordVars,
                   dataset, itemsCount, containerEl, children, processed, newEls, links,
                   tick, handed, discovered>>

\* infiniteScroll: after stopFn, one more wait, then it returns.
FinalWait ==
    /\ pc = "finalWait"
    /\ \E n \in children..page.items : children' = n
    /\ calls' = Append(calls, "finalWait")
    /\ pc' = AfterScroll(label)
    /\ UNCHANGED <<routeVars, auxVars, label, outputMaxEntries, page, error, errorLogged, recordVars,
                   reqQueue, dataset, itemsCount, containerEl, processed, newEls, links,
                   shouldContinue, tick, handed, discovered>>

\* ------------------------------------------------------------------ field resolution
\* A leaf of a raw payload: missing, or carrying a value.
Leaf == {Undefined, "P"}
\* A string leaf may also be the empty string.
StrLeaf == {Undefined, "", "P"}

\* if (x == null) x = y
FillIfNullish(cur, new) == IF Nullish(cur) THEN new ELSE cur
\* if (!x) x = y
FillIfFalsy(cur, new) == IF Falsy(cur) THEN new ELSE cur
\* [a, b, ...].some((d) => d == null)
SomeNullish(vals) == \E v \in vals : Nullish(v)

\* What the tooltip over the post's date shows: nothing, a text in the format
\* "Monday, June 24, 2013 at 5:20 PM", or some other text.
Tooltips == {Null, "datetime", "other"}
\* timestampRaw ? parseFBTimestamp(timestampRaw) : null; parseFBTimestamp throws
\* on a text that TIMESTAMP_DATETIME does not match (timeOfDay is undefined).
TimestampThrows(tooltip) == tooltip = "other"
TimestampOf(tooltip) == IF tooltip = "datetime" THEN "D" ELSE Null

\* The elements getPostStats looks for: are they in the markup.
StatsDoms == [likesEl : BOOLEAN, commentsEl : BOOLEAN, viewsEl : BOOLEAN]
\* getPostStats: the views element is looked for among the children of the common
\* ancestor of the likes and the comments element.
getPostStats(dom) ==
    [likesCount    |-> IF dom.likesEl THEN "D" ELSE Null,
     commentsCount |-> IF dom.commentsEl THEN "D" ELSE Null,
     viewsCount    |-> IF dom.likesEl /\ dom.commentsEl /\ dom.viewsEl THEN "D" ELSE Null,
     sharesCount   |-> Null]

\* ctx.actor.pushData(entry, ctx, { privacyMask })
pushData(ds, entry, mask) == Append(ds, [entry |-> entry, privacyMask |-> mask])

\* -------------------------------------------------------------- album payloads
\* The objects searchFbPayloads returns first for albumFilter and statsFilter,
\* reduced to the leaves the handler reads; found is FALSE when it returns none
\* (the raw payload is undefined).
RawAlbumPayloads(scripts) ==
    {[found |-> FALSE, creation_time |-> Undefined, reference_token |-> Undefined,
      owner |-> Undefined]}
    \cup (IF scripts
          THEN [found : {TRUE}, creation_time : Leaf, reference_token : StrLeaf,
                owner : Leaf]
          ELSE {})
RawAlbumStatsPayloads(scripts) ==
    {[found |-> FALSE, total_comment_count |-> Undefined, share_count |-> Undefined,
      reaction_count |-> Undefined]}
    \cup (IF scripts
          THEN [found : {TRUE}, total_comment_count : Leaf, share_count : Leaf,
                reaction_count : Leaf]
          ELSE {})

\* rawPayload?.leaf ?? null
Get(raw, leaf) == IF raw.found THEN Coalesce(raw[leaf], Null) ELSE Null
\* A leaf the filter guarantees, or one the model does not vary.
Has(raw) == IF raw.found THEN "P" ELSE Null

getAlbumDataFromPayloads(rawAlbum, rawStats) ==
    [title         |-> Has(rawAlbum),
     timestamp     |-> Get(rawAlbum, "creation_time"),
     albumId       |-> Get(rawAlbum, "reference_token"),
     ownerFbid     |-> Get(rawAlbum, "owner"),
     ownerName     |-> Get(rawAlbum, "owner"),
     ownerUsername |-> Get(rawAlbum, "owner"),
     ownerType     |-> Get(rawAlbum, "owner"),
     contributors  |-> Has(rawAlbum),
     groupId       |-> Has(rawStats),
     commentsCount |-> Get(rawStats, "total_comment_count"),
     sharesCount   |-> Get(rawStats, "share_count"),
     likesCount    |-> Get(rawStats, "reaction_count"),
     viewsCount    |-> Null]

\* The stat fields of albumData after getPostStats, each filled only if nullish.
AlbumStatsFilled(d, stats) ==
    [d EXCEPT !.likesCount = FillIfNullish(d.likesCount, stats.likesCount),
              !.commentsCount = FillIfNullish(d.commentsCount, stats.commentsCount),
              !.sharesCount = FillIfNullish(d.sharesCount, stats.sharesCount),
              !.viewsCount = FillIfNullish(d.viewsCount, stats.viewsCount)]

AlbumStatsWanted(d) ==
    SomeNullish({d.likesCount, d.sharesCount, d.commentsCount, d.viewsCount})

AlbumMask == {"ownerFbid", "ownerName", "ownerUsername", "ownerType", "contributors"}

\* { ...albumData, url: pageUrl, type: 'album', description, itemsCount }
AlbumEntry(d, loc, count) ==
    [f \in DOMAIN d \cup {"url", "type", "description", "itemsCount"} |->
        CASE f = "url"         -> "U"
          [] f = "type"        -> "album"
          [] f = "description" -> loc.description
          [] f = "itemsCount"  -> count
          [] OTHER             -> d[f]]

\* -------------------------------------------------------------- photo payloads
\* The first objects found for photoFilter, statsFilter and authorFilter.
\* image is FALSE when currMedia carries no image object.
RawPhotoPayloads(scripts) ==
    {[found |-> FALSE, image |-> FALSE, uri |-> Undefined,
      accessibility_caption |-> Undefined, reactors |-> Undefined,
      created_time |-> Undefined]}
    \cup (IF scripts
          THEN {[found |-> TRUE, image |-> FALSE, uri |-> Undefined,
                 accessibility_caption |-> Undefined, reactors |-> Undefined,
                 created_time |-> Undefined]}
               \cup [found : {TRUE}, image : {TRUE}, uri : Leaf,
                     accessibility_caption : Leaf, reactors : Leaf, created_time : Leaf]
          ELSE {})
RawPhotoStatsPayloads(scripts) ==
    {[found |-> FALSE, total_comment_count |-> Undefined, reaction_count |-> Undefined,
      share_count |-> Undefined]}
    \cup (IF scripts
          THEN [found : {TRUE}, total_comment_count : Leaf, reaction_count : Leaf,
                share_count : Leaf]
          ELSE {})
RawPhotoAuthorPayloads(scripts) ==
    {[found |-> FALSE, name |-> Undefined, uri |-> Undefined]}
    \cup (IF scripts THEN [found : {TRUE}, name : StrLeaf, uri : Leaf] ELSE {})

\* height: rawPhotoPayload?.currMedia?.image.height reads a property of undefined
\* when the payload is found and its currMedia has no image.
PhotoPayloadThrows(rawPhoto) == rawPhoto.found /\ ~rawPhoto.image

getPhotoDataFromPayloads(rawPhoto, rawStats, rawAuthor) ==
    [imagePreviewUrl  |-> Get(rawPhoto, "uri"),
     imagePreviewAlt  |-> Get(rawPhoto, "accessibility_caption"),
     commentsCount    |-> Get(rawStats, "total_comment_count"),
     likesCount       |-> Coalesce(Get(rawPhoto, "reactors"), Get(rawStats, "reaction_count")),
     sharesCount      |-> Get(rawStats, "share_count"),
     viewsCount       |-> Null,
     timestamp        |-> Get(rawPhoto, "created_time"),
     authorName       |-> Get(rawAuthor, "name"),
     authorFbid       |-> Has(rawAuthor),
     authorProfileUrl |-> Get(rawAuthor, "uri")]

\* if (!photoData.imagePreview.url || !photoData.imagePreview.alt)
PhotoPreviewWanted(d) == Falsy(d.imagePreviewUrl) \/ Falsy(d.imagePreviewAlt)
\* if (url) photoData.imagePreview.url = url; if (alt) photoData.imagePreview.alt = alt;
PhotoPreviewFilled(d, src, alt) ==
    [d EXCEPT !.imagePreviewUrl = IF Falsy(src) THEN @ ELSE src,
              !.imagePreviewAlt = IF Falsy(alt) THEN @ ELSE alt]

\* [photoData.commentsCount, photoData.likesCount, photoData.commentsCount].some(null)
PhotoStatsWanted(d) == SomeNullish({d.commentsCount, d.likesCount, d.commentsCount})
\* if (likesCount != null) photoData.likesCount = likesCount; ...
PhotoStatsFilled(d, stats) ==
    [d EXCEPT !.likesCount = IF Nullish(stats.likesCount) THEN @ ELSE stats.likesCount,
              !.commentsCount = IF Nullish(stats.commentsCount) THEN @
                                ELSE stats.commentsCount,
              !.viewsCount = IF Nullish(stats.viewsCount) THEN @ ELSE stats.viewsCount]

\* getAuthoredPostMetadata: everything is read off the metadata container, the
\* common ancestor of the timestamp element and the menu button.
AuthoredPostMetadata(containerFound) ==
    LET v == IF containerFound THEN "D" ELSE Null IN
    [authorProfileImageThumbUrl |-> v, authorName |-> v, authorProfileUrl |-> v,
     description |-> v]

\* if (!data.authorName) data.authorName = postMetadata.authorName; (and the url)
AuthorFilled(d, meta) ==
    [d EXCEPT !.authorName = FillIfFalsy(d.authorName, meta.authorName),
              !.authorProfileUrl = FillIfFalsy(d.authorProfileUrl, meta.authorProfileUrl)]

PhotoMask == {"authorName", "authorProfileUrl", "authorProfileImageThumb.url"}

\* { ...photoData, url, type, fbid, albumId, groupId, description, imagePreview,
\*   imageFullSize, authorProfileImageThumb }; the keys written after the spread
\* replace those of photoData.
PhotoEntry(d, loc) ==
    [f \in DOMAIN d \cup {"url", "type", "fbid", "albumId", "groupId", "description",
                          "imageFullSizeUrl", "authorProfileImageThumbUrl"} |->
        CASE f = "url"      -> "U"
          [] f = "type"     -> "photo"
          [] f = "fbid"     -> "U"
          [] f = "albumId"  -> "U"
          [] f = "groupId"  -> loc.groupId
          [] f = "description" -> loc.description
          [] f = "imageFullSizeUrl" -> loc.imageFullSizeUrl
          [] f = "authorProfileImageThumbUrl" -> loc.authorProfileImageThumbUrl
          [] OTHER          -> d[f]]

\* -------------------------------------------------------------- video payloads
\* The first objects found for pageInfoFilter, videoFilter, authorFilter,
\* commentFilter and statsFilter.
RawPageInfoPayloads(scripts) ==
    {[found |-> FALSE, fbid |-> Undefined, set |-> Undefined]}
    \cup (IF scripts THEN [found : {TRUE}, fbid : Leaf, set : Leaf] ELSE {})
\* media is FALSE when video.story.attachments[0].media is missing; dims stands for
\* height, width and playable_duration_in_ms.
RawVideoPayloads(scripts) ==
    {[found |-> FALSE, media |-> FALSE, url |-> Undefined, dims |-> Undefined,
      thumb |-> Undefined, publish_time |-> Undefined]}
    \cup (IF scripts
          THEN {[found |-> TRUE, media |-> FALSE, url |-> Undefined, dims |-> Undefined,
                 thumb |-> Undefined, publish_time |-> Undefined]}
               \cup [found : {TRUE}, media : {TRUE}, url : Leaf, dims : Leaf,
                     thumb : Leaf, publish_time : Leaf]
          ELSE {})
\* metadata is FALSE when creation_story.comet_sections carries no metadata array;
\* detail is comet_sections.actor_photo.story.actors[0]. authorFilter only passes
\* objects whose owner.name is set.
RawVideoAuthorPayloads(scripts) ==
    {[found |-> FALSE, metadata |-> FALSE, detail |-> Undefined,
      creation_time |-> Undefined]}
    \cup (IF scripts
          THEN {[found |-> TRUE, metadata |-> FALSE, detail |-> Undefined,
                 creation_time |-> Undefined]}
               \cup [found : {TRUE}, metadata : {TRUE}, detail : Leaf,
                     creation_time : Leaf]
          ELSE {})
RawCommentPayloads(scripts) ==
    {[found |-> FALSE, total_count |-> Undefined]}
    \cup (IF scripts THEN [found : {TRUE}, total_count : Leaf] ELSE {})
\* views: "none" when video_view_count_renderer.feedback is missing, "post" when it
\* has video_post_view_count, "nested" when the count is at feedback.video_view_count,
\* "bare" when it has neither video_post_view_count nor a feedback object.
RawVideoStatsPayloads(scripts) ==
    {[found |-> FALSE, views |-> "none", total_comment_count |-> Undefined,
      reaction_count |-> Undefined]}
    \cup (IF scripts
          THEN [found : {TRUE}, views : {"none", "post", "nested", "bare"},
                total_comment_count : Leaf, reaction_count : Leaf]
          ELSE {})

\* authorSecs.metadata.find(...) with authorSecs = {} or without a metadata array,
\* and vidCountObj?.feedback.video_view_count without a feedback object.
VideoPayloadThrows(rawAuthor, rawStats) ==
    \/ ~rawAuthor.found
    \/ ~rawAuthor.metadata
    \/ rawStats.found /\ rawStats.views = "bare"

getVideoDataFromPayloads(rawPageInfo, rawVideo, rawAuthor, rawComment, rawStats) ==
    [fbid        |-> Coalesce(IF rawPageInfo.found THEN rawPageInfo.fbid ELSE Undefined,
                              Coalesce(IF rawVideo.media THEN "P" ELSE Null,
                                       Has(rawStats))),
     albumId     |-> IF rawPageInfo.found THEN rawPageInfo.set ELSE Undefined,
     groupId     |-> Coalesce(IF rawVideo.media THEN "P" ELSE Null, Has(rawComment)),
     userId      |-> Null,
     videoId     |-> Null,
     timestamp   |-> Coalesce(Get(rawVideo, "publish_time"), Get(rawAuthor, "creation_time")),
     videoUrl    |-> Get(rawVideo, "url"),
     videoTitle  |-> Coalesce(Has(rawAuthor), Coalesce(Has(rawStats),
                        IF rawPageInfo.found THEN "P" ELSE Undefined)),
     videoHeight |-> Get(rawVideo, "dims"),
     videoWidth  |-> Get(rawVideo, "dims"),
     videoDuration |-> Get(rawVideo, "dims"),
     videoThumbImageUrl |-> Get(rawVideo, "thumb"),
     videoThumbImageAlt |-> Null,
     authorFbid  |-> Has(rawAuthor),
     authorName  |-> Has(rawAuthor),
     authorProfileUrl |-> Get(rawAuthor, "detail"),
     authorProfileImageThumbUrl |-> Get(rawAuthor, "detail"),
     commentsCount |-> Coalesce(Get(rawComment, "total_count"),
                                Get(rawStats, "total_comment_count")),
     viewsCount  |-> IF rawStats.views \in {"post", "nested"} THEN "P" ELSE Null,
     likesCount  |-> Get(rawStats, "reaction_count"),
     sharesCount |-> Null,
     postedToEntityFbid |-> Has(rawAuthor),
     postedToEntityName |-> Has(rawAuthor),
     postedToEntityUrl  |-> Has(rawAuthor)]

\* [videoData.albumId, videoData.fbid, videoData.userId, videoData.videoWidth].some(null)
VideoUrlWanted(d) == SomeNullish({d.albumId, d.fbid, d.userId, d.videoWidth})
\* The search params set and fbid, and the userId and videoId FB_VIDEO_URL captures.
VideoUrlFilled(d, set, fbid) ==
    [d EXCEPT !.albumId = FillIfNullish(d.albumId, set),
              !.fbid = FillIfNullish(d.fbid, fbid),
              !.userId = FillIfNullish(d.userId, "U"),
              !.videoId = FillIfNullish(d.videoId, "U")]

\* [videoUrl, videoDuration, videoHeight, videoWidth].some(null): the guard of the
\* video element stage and, as written, of the stats stage too.
VideoElWanted(d) ==
    SomeNullish({d.videoUrl, d.videoDuration, d.videoHeight, d.videoWidth})
VideoStatsWanted(d) ==
    SomeNullish({d.videoUrl, d.videoDuration, d.videoHeight, d.videoWidth})

\* getVideoPostVideo(domLib), each prop filled only if nullish
VideoElFilled(d, elFound) ==
    LET v == IF elFound THEN "D" ELSE Null IN
    [d EXCEPT !.videoUrl = FillIfNullish(d.videoUrl, v),
              !.videoDuration = FillIfNullish(d.videoDuration, v),
              !.videoHeight = FillIfNullish(d.videoHeight, v),
              !.videoWidth = FillIfNullish(d.videoWidth, v)]

VideoThumbWanted(d) == SomeNullish({d.videoThumbImageUrl, d.videoThumbImageAlt})
VideoThumbFilled(d, elFound) ==
    LET v == IF elFound THEN "D" ELSE Null IN
    [d EXCEPT !.videoThumbImageUrl = FillIfNullish(d.videoThumbImageUrl, v),
              !.videoThumbImageAlt = FillIfNullish(d.videoThumbImageAlt, v)]

VideoStatsFilled(d, stats) ==
    [d EXCEPT !.likesCount = FillIfNullish(d.likesCount, stats.likesCount),
              !.commentsCount = FillIfNullish(d.commentsCount, stats.commentsCount),
              !.sharesCount = FillIfNullish(d.sharesCount, stats.sharesCount),
              !.viewsCount = FillIfNullish(d.viewsCount, stats.viewsCount)]

VideoMaskUserIdOnly == {"userId"}
VideoMask == {"userId", "authorName", "authorProfileUrl", "authorProfileImageThumb.url"}

\* { ...videoData, url, type: 'video', description, videoThumbImage,
\*   authorProfileImageThumb }: the last is makeImageMeta of the thumb url that
\* getAuthoredPostMetadata read from the DOM, and replaces videoData's.
VideoEntry(d, loc) ==
    [f \in DOMAIN d \cup {"url", "type", "description"} |->
        CASE f = "url"      -> "U"
          [] f = "type"     -> "video"
          [] f = "description" -> loc.description
          [] f = "authorProfileImageThumbUrl" -> loc.authorProfileImageThumbUrl
          [] OTHER          -> d[f]]

\* ------------------------------------------------------------------ router
\* Strings are sequences of one-character strings.
LowerLetters == {"a", "b", "c", "d", "e", "f", "g", "h", "i", "j", "k", "l", "m", "n", "o", "p", "q", "r", "s", "t", "u", "v", "w", "x", "y", "z"}
UpperLetters == {"A", "B", "C", "D", "E", "F", "G", "H", "I", "J", "K", "L", "M", "N", "O", "P", "Q", "R", "S", "T", "U", "V", "W", "X", "Y", "Z"}
Digits == {"0", "1", "2", "3", "4", "5", "6", "7", "8", "9"}
\* [a-z0-9] under the i flag
AlnumChars == LowerLetters \cup UpperLetters \cup Digits
\* [\w.-]
UserIdChars == AlnumChars \cup {"_", ".", "-"}

\* Case folding of the i flag, for the upper-case letters the inputs use.
Fold(c) == IF c = "G" THEN "g" ELSE c

\* The path segments the inputs are built from.
WGroups == <<"g", "r", "o", "u", "p", "s">>
WMedia == <<"m", "e", "d", "i", "a">>
WSet == <<"s", "e", "t">>
WPhoto == <<"p", "h", "o", "t", "o">>
WVideos == <<"v", "i", "d", "e", "o", "s">>
WId == <<"1", "a">>
WDotted == <<"j", ".", "d">>
WDot == <<".">>
WDotDot == <<".", ".">>
WUpper == <<"G", "r", "o", "u", "p", "s">>
WOther == <<"~">>
Words == {WGroups, WMedia, WSet, WPhoto, WVideos, WId, WDotted, WDot, WDotDot, WUpper,
          WOther}

\* The longest path of an input, in segments.
MaxSegments == 4

RECURSIVE SeqsUpTo(_, _)
SeqsUpTo(S, n) ==
    IF n = 0 THEN {<< >>}
    ELSE LET shorter == SeqsUpTo(S, n - 1)
         IN  shorter \cup {Append(q, x) : q \in {r \in shorter : Len(r) = n - 1}, x \in S}

\* A URL of the site: its path segments, whether the path ends in a slash, and
\* its query string.
Queries == {"", "?set=oa.99&fbid=1"}
Urls == [segments : SeqsUpTo(Words, MaxSegments), slash : BOOLEAN, query : Queries]

\* The path as written, split at its slashes (the leading one dropped).
RawSegments(u) ==
    IF u.slash \/ u.segments = << >> THEN Append(u.segments, << >>) ELSE u.segments

\* new URL(url).pathname: the query is cut off and dot segments are resolved (a
\* "." is dropped, a ".." also drops the segment before it, and either leaves an
\* empty last segment when it ends the path).
RECURSIVE Resolve(_, _)
Resolve(raw, out) ==
    IF raw = << >> THEN out
    ELSE LET seg == Head(raw)
             last == Len(raw) = 1
             popped == IF out = << >> THEN out ELSE SubSeq(out, 1, Len(out) - 1)
         IN  IF seg = WDotDot
             THEN Resolve(Tail(raw), IF last THEN Append(popped, << >>) ELSE popped)
             ELSE IF seg = WDot
             THEN Resolve(Tail(raw), IF last THEN Append(out, << >>) ELSE out)
             ELSE Resolve(Tail(raw), Append(out, seg))

RECURSIVE Join(_)
Join(segs) == IF segs = << >> THEN << >> ELSE <<"/">> \o Head(segs) \o Join(Tail(segs))

pathname(u) == Join(Resolve(RawSegments(u), << >>))

\* Regular expression matching over positions 1..Len(s)+1: each operator maps the
\* set of positions a match may have reached to the set it may reach next.
\* a literal, compared under the i flag
Lit(s, P, w) ==
    {p + Len(w) : p \in {q \in P : /\ q + Len(w) - 1 <= Len(s)
                                   /\ \A k \in 1..Len(w) : Fold(s[q + k - 1]) = w[k]}}
\* [class]+
Plus(s, P, class) ==
    {q \in 2..(Len(s) + 1) : \E p \in P : p < q /\ \A k \in p..(q - 1) : s[k] \in class}
\* \/?
OptSlash(s, P) == P \cup Lit(s, P, <<"/">>)
\* $
AtEnd(s, P) == {p \in P : p = Len(s) + 1}
\* (?:$|\/)
EndOrSlash(s, P) == AtEnd(s, P) \cup Lit(s, P, <<"/">>)

\* ^\/groups\/(?<groupId>[a-z0-9]+)
GroupPrefix(s) == Plus(s, Lit(s, Lit(s, {1}, <<"/">> \o WGroups), <<"/">>), AlnumChars)
\* ^\/groups\/(?<groupId>[a-z0-9]+)\/media
GroupMediaPrefix(s) == Lit(s, Lit(s, GroupPrefix(s), <<"/">>), WMedia)

\* REGEX.FB_GROUP_URL: /^\/groups\/(?<groupId>[a-z0-9]+)(?:$|\/)/i
FB_GROUP_URL(s) == EndOrSlash(s, GroupPrefix(s)) # {}
\* REGEX.FB_GROUP_MEDIA_URL: /^\/groups\/(?<groupId>[a-z0-9]+)\/media\/?$/i
FB_GROUP_MEDIA_URL_Unanchored(s) == OptSlash(s, GroupMediaPrefix(s)) # {}
FB_GROUP_MEDIA_URL(s) == AtEnd(s, OptSlash(s, GroupMediaPrefix(s))) # {}
\* REGEX.FB_GROUP_MEDIA_TAB_URL:
\*   /^\/groups\/(?<groupId>[a-z0-9]+)\/media\/(?<tab>[a-z0-9]+)\/?$/i
FB_GROUP_MEDIA_TAB_URL(s) ==
    AtEnd(s, OptSlash(s, Plus(s, Lit(s, GroupMediaPrefix(s), <<"/">>), AlnumChars))) # {}
\* REGEX.FB_ALBUM_URL: /^\/media\/set(?:$|\/)/i
FB_ALBUM_URL(s) ==
    EndOrSlash(s, Lit(s, Lit(s, Lit(s, {1}, <<"/">> \o WMedia), <<"/">>), WSet)) # {}
\* REGEX.FB_PHOTO_URL: /^\/photo(?:$|\/)/i
FB_PHOTO_URL(s) == EndOrSlash(s, Lit(s, {1}, <<"/">> \o WPhoto)) # {}
\* REGEX.FB_VIDEO_URL: /^\/(?<userId>[\w.-]+)\/videos\/(?<videoId>[a-z0-9]+)(?:$|\/)/i
FB_VIDEO_URL_AlnumUser(s) ==
    EndOrSlash(s, Plus(s, Lit(s, Lit(s, Lit(s, Plus(s, Lit(s, {1}, <<"/">>), AlnumChars),
                                            <<"/">>), WVideos), <<"/">>),
                       AlnumChars)) # {}
FB_VIDEO_URL(s) ==
    EndOrSlash(s, Plus(s, Lit(s, Lit(s, Lit(s, Plus(s, Lit(s, {1}, <<"/">>), UserIdChars),
                                            <<"/">>), WVideos), <<"/">>),
                       AlnumChars)) # {}

\* The route table, in the order of the array: each handlerLabel with its match.
routesGroupFirst ==
    <<"FB_GROUP", "FB_GROUP_MEDIA_TAB", "FB_GROUP_MEDIA", "FB_MEDIA_ALBUM",
      "FB_MEDIA_PHOTO", "FB_MEDIA_VIDEO">>
routes ==
    <<"FB_GROUP_MEDIA_TAB", "FB_GROUP_MEDIA", "FB_GROUP", "FB_MEDIA_ALBUM",
      "FB_MEDIA_PHOTO", "FB_MEDIA_VIDEO">>

\* match: (url) => !!new URL(url).pathname.match(REGEX...)
match(l, u) ==
    LET s == pathname(u) IN
    CASE l = "FB_GROUP_MEDIA_TAB" -> FB_GROUP_MEDIA_TAB_URL(s)
      [] l = "FB_GROUP_MEDIA"     -> FB_GROUP_MEDIA_URL(s)
      [] l = "FB_GROUP"           -> FB_GROUP_URL(s)
      [] l = "FB_MEDIA_ALBUM"     -> FB_ALBUM_URL(s)
      [] l = "FB_MEDIA_PHOTO"     -> FB_PHOTO_URL(s)
      [] l = "FB_MEDIA_VIDEO"     -> FB_VIDEO_URL(s)

\* The router's choice: the routes are tried in order and the first whose match
\* holds gives the label; Null when none does.
SelectRoute(u) ==
    LET hits == {i \in 1..Len(routes) : match(routes[i], u)} IN
    IF hits = {} THEN Null
    ELSE routes[CHOOSE i \in hits : \A j \in hits : i <= j]

\* The named groups a handler destructures from its pattern's match on the
\* pathname: the segments the groups span. A group is a whole segment, since it is
\* followed by a slash or the end and its class has no slash.
Segment(u, i) ==
    LET segs == Resolve(RawSegments(u), << >>) IN
    IF i <= Len(segs) THEN segs[i] ELSE << >>
Groups(l, u) ==
    CASE l \in {"FB_GROUP", "FB_GROUP_MEDIA"} -> [groupId |-> Segment(u, 2)]
      [] l = "FB_GROUP_MEDIA_TAB" -> [groupId |-> Segment(u, 2), tab |-> Segment(u, 4)]
      [] l = "FB_MEDIA_VIDEO"     -> [userId |-> Segment(u, 1), videoId |-> Segment(u, 3)]
      [] OTHER                    -> [none |-> << >>]

\* The router takes a request from the queue and selects its route.
Route ==
    /\ routePc = "queued"
    /\ routeLabel' = SelectRoute(url)
    /\ routePc' = IF routeLabel' = Null THEN "skipped" ELSE "routed"
    /\ UNCHANGED <<handlerVars, auxVars, url, groups>>

\* The selected handler matches its pattern on the page's pathname again and
\* reads the named groups.
ReadGroups ==
    /\ routePc = "routed"
    /\ groups' = Groups(routeLabel, url)
    /\ routePc' = "handled"
    /\ UNCHANGED <<handlerVars, auxVars, url, routeLabel>>

\* No request, and the groups of a pattern that did not match ({ groups: {} }).
NoUrl == [segments |-> << >>, slash |-> FALSE, query |-> ""]
NoGroups == [none |-> << >>]

\* `${groupId}` of a group the pattern did not capture
WUndefined == <<"u", "n", "d", "e", "f", "i", "n", "e", "d">>

\* FB_GROUP: urlObj.pathname = `/groups/${groupId}/media`; urlObj.toString() keeps
\* the query.
GroupUrlAgain(u, g) ==
    [segments |-> <<WGroups, IF "groupId" \in DOMAIN g THEN g.groupId ELSE WUndefined>>,
     slash |-> FALSE, query |-> u.query]
GroupMediaUrl(u, g) ==
    [segments |-> <<WGroups, IF "groupId" \in DOMAIN g THEN g.groupId ELSE WUndefined,
                    WMedia>>,
     slash |-> FALSE, query |-> u.query]

\* The rest of the FB_GROUP handler: reqQueue.addRequest({ url: newUrl }).
GroupRedirect ==
    /\ routePc = "handled"
    /\ routeLabel = "FB_GROUP"
    /\ reqQueue' = Append(reqQueue, GroupMediaUrl(url, groups))
    /\ calls' = Append(calls, "addRequest")
    /\ routePc' = "redirected"
    /\ UNCHANGED <<auxVars, routeLabel, url, groups, label, outputMaxEntries, page, pc, error,
                   errorLogged, recordVars, dataset, scrollVars>>

\* The pages the photo handler is invoked on: those the router labels
\* FB_MEDIA_PHOTO, with up to MaxPhotoSegments segments after /photo.
MaxPhotoSegments == 2
PhotoPageUrls ==
    {u \in [segments : {lead \o q : lead \in {<<WPhoto>>, <<WDot, WPhoto>>},
                                    q \in SeqsUpTo(Words, MaxPhotoSegments)},
            slash : BOOLEAN, query : Queries] : SelectRoute(u) = "FB_MEDIA_PHOTO"}

\* FB_MEDIA_PHOTO: const { groups: { groupId } } =
\*   new URL(pageUrl).pathname.match(REGEX.FB_GROUP_URL) || { groups: {} }
\* "U" stands for the segment the group captures.
photoGroupIdUnanchored(u) ==
    IF \E i \in 1..(Len(u.segments) - 1) : u.segments[i] = WGroups
    THEN "U" ELSE Undefined
photoGroupId(u) == IF FB_GROUP_URL(pathname(u)) THEN "U" ELSE Undefined

\* The pages the FB_GROUP handler is invoked on.
GroupPageUrls == {[segments |-> <<WGroups, WId>>, slash |-> s, query |-> q] :
                     s \in BOOLEAN, q \in Queries}

\* FB_GROUP and FB_GROUP_MEDIA: await ctx.page.waitForLoadState('networkidle')
GroupLoad ==
    /\ label \in {"FB_GROUP", "FB_GROUP_MEDIA"}
    /\ pc = "start"
    /\ calls' = Append(calls, "waitForLoadState")
    /\ pc' = "openQueue"
    /\ UNCHANGED <<routeVars, auxVars, label, outputMaxEntries, page, error, errorLogged,
                   recordVars, reqQueue, dataset, scrollVars>>

\* FB_GROUP: await reqQueue.addRequest({ url: newUrl })
GroupEnqueue ==
    /\ label = "FB_GROUP"
    /\ pc = "openQueue"
    /\ \E u \in GroupPageUrls :
          reqQueue' = Append(reqQueue, GroupMediaUrl(u, Groups("FB_GROUP", u)))
    /\ calls' = Append(calls, "addRequest")
    /\ pc' = "done"
    /\ UNCHANGED <<routeVars, auxVars, label, outputMaxEntries, page, error, errorLogged,
                   recordVars, dataset, scrollVars>>

\* locator(tabSelector).evaluateAll((els) => els.map((el) => el.href)): one link
\* per element the selector matches.
tabLinksFirstOnly(n) == IF n = 0 THEN << >> ELSE <<1>>
tabLinks(n) == [i \in 1..n |-> i]

\* FB_GROUP_MEDIA: await reqQueue.addRequests(tabLinks.map((url) => ({ url })))
GroupMediaEnqueue ==
    /\ label = "FB_GROUP_MEDIA"
    /\ pc = "openQueue"
    /\ reqQueue' = addRequests(reqQueue, tabLinks(page.items))
    /\ calls' = Append(calls, "addRequests")
    /\ pc' = "done"
    /\ UNCHANGED <<routeVars, auxVars, label, outputMaxEntries, page, error, errorLogged,
                   recordVars, dataset, scrollVars>>

\* The crawler takes the enqueued request and gives it to the router.
NextRequest ==
    /\ routePc = "redirected"
    /\ reqQueue # << >>
    /\ url' = Head(reqQueue)
    /\ reqQueue' = Tail(reqQueue)
    /\ routePc' = "queued"
    /\ routeLabel' = Null
    /\ groups' = NoGroups
    /\ UNCHANGED <<auxVars, label, outputMaxEntries, page, pc, error, errorLogged, recordVars,
                   calls, dataset, scrollVars>>

\* ------------------------------------------------------------------ handlers
\* FB_MEDIA_ALBUM: waitForLoadState, openRequestQueue.
AlbumStart ==
    /\ label = "FB_MEDIA_ALBUM"
    /\ pc = "start"
    /\ calls' = Append(calls, "waitForLoadState")
    /\ pc' = "payload"
    /\ UNCHANGED <<routeVars, auxVars, label, outputMaxEntries, page, error, errorLogged, recordVars,
                   reqQueue, dataset, scrollVars>>

\* getAlbumDataFromPayloads, then the album id from the URL when the payload has none.
AlbumPayload ==
    /\ label = "FB_MEDIA_ALBUM"
    /\ pc = "payload"
    /\ \E rawAlbum \in RawAlbumPayloads(page.scripts),
          rawStats \in RawAlbumStatsPayloads(page.scripts),
          set \in {Null, "U"} :
          LET d == getAlbumDataFromPayloads(rawAlbum, rawStats) IN
          /\ afterPayload' = d
          /\ data' = [d EXCEPT !.albumId = FillIfFalsy(d.albumId, set)]
    /\ calls' = Append(calls, "searchFbPayloads")
    /\ pc' = "albumMetadata"
    /\ UNCHANGED <<routeVars, auxVars, label, outputMaxEntries, page, error, errorLogged, local,
                   reqQueue, dataset, scrollVars>>

\* makeCheerioDom, getAlbumMetadata
AlbumMetadata ==
    /\ label = "FB_MEDIA_ALBUM"
    /\ pc = "albumMetadata"
    /\ \E description \in {Null, "D"} : local' = [local EXCEPT !.description = description]
    /\ calls' = Append(calls, "getAlbumMetadata")
    /\ pc' = "timestamp"
    /\ UNCHANGED <<routeVars, auxVars, label, outputMaxEntries, page, error, errorLogged, data, afterPayload,
                   reqQueue, dataset, scrollVars>>

\* if (!albumData.timestamp) { getPostTimestampValue; parseFBTimestamp }
AlbumTimestamp ==
    /\ label = "FB_MEDIA_ALBUM"
    /\ pc = "timestamp"
    /\ IF Falsy(data.timestamp)
       THEN /\ calls' = Append(calls, "getPostTimestampValue")
            /\ \E tooltip \in Tooltips :
                  IF TimestampThrows(tooltip)
                  THEN /\ pc' = "failed"
                       /\ error' = "thrown"
                       /\ UNCHANGED data
                  ELSE /\ pc' = "stats"
                       /\ data' = [data EXCEPT !.timestamp = TimestampOf(tooltip)]
                       /\ UNCHANGED error
       ELSE /\ pc' = "stats"
            /\ UNCHANGED <<calls, data, error>>
    /\ UNCHANGED <<routeVars, auxVars, label, outputMaxEntries, page, errorLogged, afterPayload, local,
                   reqQueue, dataset, scrollVars>>

\* if ([likesCount, sharesCount, commentsCount, viewsCount].some(null)) getPostStats
AlbumStats ==
    /\ label = "FB_MEDIA_ALBUM"
    /\ pc = "stats"
    /\ IF AlbumStatsWanted(data)
       THEN /\ calls' = Append(calls, "getPostStats")
            /\ \E dom \in StatsDoms : data' = AlbumStatsFilled(data, getPostStats(dom))
       ELSE UNCHANGED <<calls, data>>
    /\ pc' = "locate"
    /\ UNCHANGED <<routeVars, auxVars, label, outputMaxEntries, page, error, errorLogged, afterPayload, local,
                   reqQueue, dataset, scrollVars>>

\* const entry = {...}; await ctx.actor.pushData(entry, ctx, { privacyMask })
AlbumPush ==
    /\ label = "FB_MEDIA_ALBUM"
    /\ pc = "push"
    /\ dataset' = pushData(dataset, AlbumEntry(data, local, itemsCount), AlbumMask)
    /\ calls' = Append(calls, "pushData")
    /\ pc' = "done"
    /\ UNCHANGED <<routeVars, auxVars, label, outputMaxEntries, page, error, errorLogged, recordVars,
                   reqQueue, scrollVars>>

\* FB_GROUP_MEDIA_TAB: waitForLoadState, wait(2000), openRequestQueue.
TabStart ==
    /\ label = "FB_GROUP_MEDIA_TAB"
    /\ pc = "start"
    /\ calls' = Append(calls, "waitForLoadState")
    /\ pc' = "locate"
    /\ UNCHANGED <<routeVars, auxVars, label, outputMaxEntries, page, error, errorLogged, recordVars,
                   reqQueue, dataset, scrollVars>>

\* FB_MEDIA_PHOTO: waitForLoadState
PhotoStart ==
    /\ label = "FB_MEDIA_PHOTO"
    /\ pc = "start"
    /\ calls' = Append(calls, "waitForLoadState")
    /\ \E u \in PhotoPageUrls : local' = [local EXCEPT !.groupId = photoGroupId(u)]
    /\ pc' = "payload"
    /\ UNCHANGED <<routeVars, auxVars, label, outputMaxEntries, page, error, errorLogged, data,
                   afterPayload, reqQueue, dataset, scrollVars>>

\* getPhotoDataFromPayloads(ctx.page)
PhotoPayload ==
    /\ label = "FB_MEDIA_PHOTO"
    /\ pc = "payload"
    /\ calls' = Append(calls, "searchFbPayloads")
    /\ \E rawPhoto \in RawPhotoPayloads(page.scripts),
          rawStats \in RawPhotoStatsPayloads(page.scripts),
          rawAuthor \in RawPhotoAuthorPayloads(page.scripts) :
          IF PhotoPayloadThrows(rawPhoto)
          THEN /\ pc' = "failed"
               /\ error' = "thrown"
               /\ UNCHANGED <<data, afterPayload>>
          ELSE /\ pc' = "fullSize"
               /\ data' = getPhotoDataFromPayloads(rawPhoto, rawStats, rawAuthor)
               /\ afterPayload' = data'
               /\ UNCHANGED error
    /\ UNCHANGED <<routeVars, auxVars, label, outputMaxEntries, page, errorLogged, local, reqQueue, dataset,
                   scrollVars>>

\* getPhotoFullSize(ctx.page): two clicks on the menu button around reading the
\* download link
PhotoFullSize ==
    /\ label = "FB_MEDIA_PHOTO"
    /\ pc = "fullSize"
    /\ calls' = Append(calls, "getPhotoFullSize")
    /\ \E href \in {Null, "D"} : local' = [local EXCEPT !.imageFullSizeUrl = href]
    /\ pc' = "preview"
    /\ UNCHANGED <<routeVars, auxVars, label, outputMaxEntries, page, error, errorLogged, data, afterPayload,
                   reqQueue, dataset, scrollVars>>

\* getPhotoPreview(domLib): src and alt of the media viewer's img
PhotoPreview ==
    /\ label = "FB_MEDIA_PHOTO"
    /\ pc = "preview"
    /\ IF PhotoPreviewWanted(data)
       THEN /\ calls' = Append(calls, "getPhotoPreview")
            /\ \E src \in {Null, "D"}, alt \in {Null, "D"} :
                  data' = PhotoPreviewFilled(data, src, alt)
       ELSE UNCHANGED <<calls, data>>
    /\ pc' = "timestamp"
    /\ UNCHANGED <<routeVars, auxVars, label, outputMaxEntries, page, error, errorLogged, afterPayload, local,
                   reqQueue, dataset, scrollVars>>

\* if (!data.timestamp) { getPostTimestampValue; parseFBTimestamp }, photo and video
PostTimestamp ==
    /\ label \in {"FB_MEDIA_PHOTO", "FB_MEDIA_VIDEO"}
    /\ pc = "timestamp"
    /\ IF Falsy(data.timestamp)
       THEN /\ calls' = Append(calls, "getPostTimestampValue")
            /\ \E tooltip \in Tooltips :
                  IF TimestampThrows(tooltip)
                  THEN /\ pc' = "failed"
                       /\ error' = "thrown"
                       /\ UNCHANGED data
                  ELSE /\ pc' = "stats"
                       /\ data' = [data EXCEPT !.timestamp = TimestampOf(tooltip)]
                       /\ UNCHANGED error
       ELSE /\ pc' = "stats"
            /\ UNCHANGED <<calls, data, error>>
    /\ UNCHANGED <<routeVars, auxVars, label, outputMaxEntries, page, errorLogged, afterPayload, local,
                   reqQueue, dataset, scrollVars>>

PhotoStats ==
    /\ label = "FB_MEDIA_PHOTO"
    /\ pc = "stats"
    /\ IF PhotoStatsWanted(data)
       THEN /\ calls' = Append(calls, "getPostStats")
            /\ \E dom \in StatsDoms : data' = PhotoStatsFilled(data, getPostStats(dom))
       ELSE UNCHANGED <<calls, data>>
    /\ pc' = "metadata"
    /\ UNCHANGED <<routeVars, auxVars, label, outputMaxEntries, page, error, errorLogged, afterPayload, local,
                   reqQueue, dataset, scrollVars>>

\* getAuthoredPostMetadata(timestampEl, menuEl), photo and video
PostMetadata ==
    /\ label \in {"FB_MEDIA_PHOTO", "FB_MEDIA_VIDEO"}
    /\ pc = "metadata"
    /\ calls' = Append(calls, "getAuthoredPostMetadata")
    /\ \E containerFound \in BOOLEAN :
          LET meta == AuthoredPostMetadata(containerFound) IN
          /\ data' = AuthorFilled(data, meta)
          /\ local' = [local EXCEPT
                          !.description = meta.description,
                          !.authorProfileImageThumbUrl = meta.authorProfileImageThumbUrl]
    /\ pc' = "imageMeta"
    /\ UNCHANGED <<routeVars, auxVars, label, outputMaxEntries, page, error, errorLogged, afterPayload,
                   reqQueue, dataset, scrollVars>>

\* What follows the image-metadata fetches: const entry = {...}; pushData
AfterImageMetaBackToStats == "stats"
AfterImageMeta == "push"

\* makeImageMeta for each image of the entry, photo and video
ImageMeta ==
    /\ label \in {"FB_MEDIA_PHOTO", "FB_MEDIA_VIDEO"}
    /\ pc = "imageMeta"
    /\ calls' = Append(calls, "makeImageMeta")
    /\ pc' = AfterImageMeta
    /\ UNCHANGED <<routeVars, auxVars, label, outputMaxEntries, page, error, errorLogged, recordVars,
                   reqQueue, dataset, scrollVars>>

PhotoPush ==
    /\ label = "FB_MEDIA_PHOTO"
    /\ pc = "push"
    /\ dataset' = pushData(dataset, PhotoEntry(data, local), PhotoMask)
    /\ calls' = Append(calls, "pushData")
    /\ pc' = "done"
    /\ UNCHANGED <<routeVars, auxVars, label, outputMaxEntries, page, error, errorLogged, recordVars,
                   reqQueue, scrollVars>>

\* FB_MEDIA_VIDEO: waitForLoadState, makeCheerioDom
VideoStart ==
    /\ label = "FB_MEDIA_VIDEO"
    /\ pc = "start"
    /\ calls' = Append(calls, "waitForLoadState")
    /\ pc' = "payload"
    /\ UNCHANGED <<routeVars, auxVars, label, outputMaxEntries, page, error, errorLogged, recordVars,
                   reqQueue, dataset, scrollVars>>

\* getVideoDataFromPayloads(ctx.page), then the ids from the URL
VideoPayload ==
    /\ label = "FB_MEDIA_VIDEO"
    /\ pc = "payload"
    /\ calls' = Append(calls, "searchFbPayloads")
    /\ \E rawPageInfo \in RawPageInfoPayloads(page.scripts),
          rawVideo \in RawVideoPayloads(page.scripts),
          rawAuthor \in RawVideoAuthorPayloads(page.scripts),
          rawComment \in RawCommentPayloads(page.scripts),
          rawStats \in RawVideoStatsPayloads(page.scripts),
          set \in {Null, "U"}, fbid \in {Null, "U"} :
          IF VideoPayloadThrows(rawAuthor, rawStats)
          THEN /\ pc' = "failed"
               /\ error' = "thrown"
               /\ UNCHANGED <<data, afterPayload>>
          ELSE LET d == getVideoDataFromPayloads(rawPageInfo, rawVideo, rawAuthor,
                                                 rawComment, rawStats) IN
               /\ pc' = "videoEl"
               /\ afterPayload' = d
               /\ data' = IF VideoUrlWanted(d) THEN VideoUrlFilled(d, set, fbid) ELSE d
               /\ UNCHANGED error
    /\ UNCHANGED <<routeVars, auxVars, label, outputMaxEntries, page, errorLogged, local, reqQueue, dataset,
                   scrollVars>>

\* getVideoPostVideo(domLib)
VideoEl ==
    /\ label = "FB_MEDIA_VIDEO"
    /\ pc = "videoEl"
    /\ IF VideoElWanted(data)
       THEN /\ calls' = Append(calls, "getVideoPostVideo")
            /\ \E elFound \in BOOLEAN : data' = VideoElFilled(data, elFound)
       ELSE UNCHANGED <<calls, data>>
    /\ pc' = "thumb"
    /\ UNCHANGED <<routeVars, auxVars, label, outputMaxEntries, page, error, errorLogged, afterPayload, local,
                   reqQueue, dataset, scrollVars>>

\* getVideoThumb(domLib)
VideoThumb ==
    /\ label = "FB_MEDIA_VIDEO"
    /\ pc = "thumb"
    /\ IF VideoThumbWanted(data)
       THEN /\ calls' = Append(calls, "getVideoThumb")
            /\ \E elFound \in BOOLEAN : data' = VideoThumbFilled(data, elFound)
       ELSE UNCHANGED <<calls, data>>
    /\ pc' = "timestamp"
    /\ UNCHANGED <<routeVars, auxVars, label, outputMaxEntries, page, error, errorLogged, afterPayload, local,
                   reqQueue, dataset, scrollVars>>

VideoStats ==
    /\ label = "FB_MEDIA_VIDEO"
    /\ pc = "stats"
    /\ IF VideoStatsWanted(data)
       THEN /\ calls' = Append(calls, "getPostStats")
            /\ \E dom \in StatsDoms : data' = VideoStatsFilled(data, getPostStats(dom))
       ELSE UNCHANGED <<calls, data>>
    /\ pc' = "metadata"
    /\ UNCHANGED <<routeVars, auxVars, label, outputMaxEntries, page, error, errorLogged, afterPayload, local,
                   reqQueue, dataset, scrollVars>>

VideoPush ==
    /\ label = "FB_MEDIA_VIDEO"
    /\ pc = "push"
    /\ dataset' = pushData(dataset, VideoEntry(data, local), VideoMask)
    /\ calls' = Append(calls, "pushData")
    /\ pc' = "done"
    /\ UNCHANGED <<routeVars, auxVars, label, outputMaxEntries, page, error, errorLogged, recordVars,
                   reqQueue, scrollVars>>

\* Any awaited browser, network or queue call may reject; nothing in the handlers
\* catches it, so the invocation ends there.
FailWithdrawing ==
    /\ pc \notin {"done", "failed"}
    /\ pc' = "failed"
    /\ error' = "external"
    /\ reqQueue' = << >>
    /\ UNCHANGED <<routeVars, auxVars, label, outputMaxEntries, page, errorLogged, recordVars, calls,
                   dataset, scrollVars>>
Fail ==
    /\ pc \notin {"done", "failed"}
    /\ pc' = "failed"
    /\ error' = "external"
    /\ UNCHANGED <<routeVars, auxVars, label, outputMaxEntries, page, errorLogged, recordVars, calls,
                   reqQueue, dataset, scrollVars>>

\* -------------------------------------------------------- concurrent handlers
\* Two invocations of the album handler, each on its own page, run on the one
\* event loop and interleave at their awaits.
Invocations == {1, 2}
\* The most list items a page of the concurrent runs reveals.
MaxPairItems == 2

\* `let itemsCount = 0` is declared in the handler's body: each invocation has a
\* variable of its own.
itemsCountShared(i) == 1
itemsCountOf(i) == i

PairPages == {p \in [container : BOOLEAN, items : 0..MaxPairItems] :
                ~p.container => p.items = 0}
PairMaxEntriesInputs == {{}, {1}}

PairStart(p) ==
    [page |-> p, pc |-> "locate", children |-> 0, processed |-> {}, newEls |-> << >>,
     links |-> << >>, shouldContinue |-> TRUE, errorLogged |-> FALSE]

\* The requests invocation i has added to the queue.
AddedBy(i) == SelectSeq(sharedQueue, LAMBDA r : r.by = i)

\* getCommonAncestorFromSelector, the container check, let itemsCount = 0
PairLocate(i) ==
    /\ invocations[i].pc = "locate"
    /\ LET node == IF invocations[i].page.container THEN "node" ELSE Null IN
       IF ContainerMissing(node)
       THEN /\ invocations' = [invocations EXCEPT ![i].pc = "done",
                                                 ![i].errorLogged = TRUE]
            /\ UNCHANGED counterCells
       ELSE /\ \E n \in 0..invocations[i].page.items :
                  invocations' = [invocations EXCEPT ![i].pc = "scroll",
                                                     ![i].children = n]
            /\ counterCells' = [counterCells EXCEPT ![itemsCountOf(i)] = 0]
    /\ UNCHANGED <<sharedQueue, records, handlerVars, routeVars, restVars>>

\* infiniteScroll: scrollIntoView, then waitAfterInfiniteScroll
PairScroll(i) ==
    /\ invocations[i].pc = "scroll"
    /\ \E n \in invocations[i].children..invocations[i].page.items :
          invocations' = [invocations EXCEPT ![i].pc = "diff", ![i].children = n]
    /\ UNCHANGED <<counterCells, sharedQueue, records, handlerVars, routeVars, restVars>>

\* infiniteScroll: the new elements are handed to the callback
PairDiff(i) ==
    /\ invocations[i].pc = "diff"
    /\ LET batch == NewChildren(invocations[i].children, invocations[i].processed) IN
       invocations' = [invocations EXCEPT
                          ![i].newEls = batch,
                          ![i].processed = @ \cup Range(batch),
                          ![i].pc = IF batch = << >> THEN "push" ELSE "links"]
    /\ UNCHANGED <<counterCells, sharedQueue, records, handlerVars, routeVars, restVars>>

\* The callback up to its second await: links, itemsCount += links.length
PairGetLinks(i) ==
    /\ invocations[i].pc = "links"
    /\ \E withLink \in SUBSET Range(invocations[i].newEls) :
          LET ls == ExtractLinks(invocations[i].newEls, withLink) IN
          /\ invocations' = [invocations EXCEPT ![i].links = ls, ![i].pc = "enqueue"]
          /\ counterCells' = [counterCells EXCEPT
                                 ![itemsCountOf(i)] = itemsCountAdded(@, ls)]
    /\ UNCHANGED <<sharedQueue, records, handlerVars, routeVars, restVars>>

\* The rest of the callback: addRequests resolves, then the stop check
PairEnqueue(i) ==
    /\ invocations[i].pc = "enqueue"
    /\ sharedQueue' = addRequests(sharedQueue,
                                  [k \in DOMAIN invocations[i].links |->
                                      [by |-> i, link |-> invocations[i].links[k]]])
    /\ LET stop == StopSignalled(outputMaxEntries, counterCells[itemsCountOf(i)]) IN
       invocations' = [invocations EXCEPT
                          ![i].shouldContinue = IF stop THEN FALSE ELSE @,
                          ![i].pc = IF stop THEN "finalWait" ELSE "scroll"]
    /\ UNCHANGED <<counterCells, records, handlerVars, routeVars, restVars>>

\* infiniteScroll: the final wait after stopFn
PairFinalWait(i) ==
    /\ invocations[i].pc = "finalWait"
    /\ invocations' = [invocations EXCEPT ![i].pc = "push"]
    /\ UNCHANGED <<counterCells, sharedQueue, records, handlerVars, routeVars, restVars>>

\* const entry = { ..., itemsCount }; pushData
PairPush(i) ==
    /\ invocations[i].pc = "push"
    /\ records' = [records EXCEPT
                      ![i] = Append(@, [type |-> "album",
                                        itemsCount |-> counterCells[itemsCountOf(i)]])]
    /\ invocations' = [invocations EXCEPT ![i].pc = "done"]
    /\ UNCHANGED <<counterCells, sharedQueue, handlerVars, routeVars, restVars>>

\* ------------------------------------------------------------------ popup timer
\* The interval callbacks that may start while the page is open.
MaxTicks == 2

\* The interval callbacks that may start after the page closed while the timer is
\* still set.
MaxLateTicks == 2

\* const popups = [cookie consent, login dialog]
Popups == {1, 2}

Outcomes == {"returned", "earlyReturn", "threw"}

\* if (!page || page.isClosed())
TickNeverStops(p, closed) == FALSE
TickStops(p, closed) == p = Null \/ closed

\* The callback moves on to the next popup of the list, or ends.
NextPopup(t) ==
    IF t.popup = 1 THEN [t EXCEPT !.popup = 2, !.pc = "count"]
    ELSE [t EXCEPT !.pc = "done"]

\* } catch (err) { console.error(err); } inside the loop's body: the loop goes on
\* with the next popup.
AfterCatchLeavesLoop(t) == [t EXCEPT !.caught = @ \cup {t.popup}, !.pc = "done"]
AfterCatch(t) == NextPopup([t EXCEPT !.caught = @ \cup {t.popup}])

EarlyTicks == {t \in DOMAIN ticks : ~ticks[t].closedAtStart}
LateTicks == {t \in DOMAIN ticks : ticks[t].closedAtStart}

\* (ctx, ...args) => { pingForAndClosePopups(ctx.page); return origRouterHandler(...) }
closePopupsRouterWrapper ==
    /\ outcome = "waiting"
    /\ intervalId = "none"
    /\ intervalId' = "set"
    /\ outcome' = "running"
    /\ UNCHANGED <<isClosed, ticks, nonTimerVars>>

\* The wrapped handler returns, returns early or throws; the timer's dispose
\* function was discarded by the wrapper and is not called.
HandlerEnds ==
    /\ outcome = "running"
    /\ outcome' \in Outcomes
    /\ UNCHANGED <<intervalId, isClosed, ticks, nonTimerVars>>

\* The crawler closes the page after the handler, or the browser closes it earlier.
PageCloses ==
    /\ intervalId # "none"
    /\ ~isClosed
    /\ isClosed' = TRUE
    /\ UNCHANGED <<intervalId, outcome, ticks, nonTimerVars>>

\* setInterval fires: the callback tests the page, then clears the timer or starts
\* on the first popup.
TickStart ==
    /\ intervalId = "set"
    /\ IF isClosed THEN Cardinality(LateTicks) < MaxLateTicks
       ELSE Cardinality(EarlyTicks) < MaxTicks
    /\ IF TickStops("page", isClosed)
       THEN /\ intervalId' = "cleared"
            /\ ticks' = Append(ticks, [pc |-> "done", popup |-> 0, issued |-> 0,
                                       checked |-> {}, caught |-> {},
                                       closedAtStart |-> isClosed])
       ELSE /\ intervalId' = intervalId
            /\ ticks' = Append(ticks, [pc |-> "count", popup |-> 1, issued |-> 0,
                                       checked |-> {}, caught |-> {},
                                       closedAtStart |-> isClosed])
    /\ UNCHANGED <<isClosed, outcome, nonTimerVars>>

\* await locator.count(): rejects (always on a closed page; caught and logged), or
\* tells whether the popup is present.
TickCount(t) ==
    /\ ticks[t].pc = "count"
    /\ \E rejects, elIsPresent \in BOOLEAN :
          /\ isClosed => rejects
          /\ LET issued == [ticks[t] EXCEPT !.issued = @ + 1,
                                            !.checked = @ \cup {ticks[t].popup}]
             IN  ticks' = [ticks EXCEPT
                             ![t] = IF rejects THEN AfterCatch(issued)
                                    ELSE IF ~elIsPresent THEN NextPopup(issued)
                                    ELSE [issued EXCEPT !.pc = "click"]]
    /\ UNCHANGED <<intervalId, isClosed, outcome, nonTimerVars>>

\* await dialogLoc.scrollIntoViewIfNeeded(); await dialogLoc.click({ force: true });
\* a rejection is caught and logged
TickClick(t) ==
    /\ ticks[t].pc = "click"
    /\ \E rejects \in BOOLEAN :
          /\ isClosed => rejects
          /\ LET issued == [ticks[t] EXCEPT !.issued = @ + 1]
             IN  ticks' = [ticks EXCEPT
                             ![t] = IF rejects THEN AfterCatch(issued) ELSE NextPopup(issued)]
    /\ UNCHANGED <<intervalId, isClosed, outcome, nonTimerVars>>

\* No page visit has started a timer.
TimerIdle ==
    /\ intervalId = "none"
    /\ isClosed = FALSE
    /\ outcome = "idle"
    /\ ticks = << >>

\* ------------------------------------------------------------------ timestamp parser
UpperAlphabet == <<"A", "B", "C", "D", "E", "F", "G", "H", "I", "J", "K", "L", "M",
                   "N", "O", "P", "Q", "R", "S", "T", "U", "V", "W", "X", "Y", "Z">>
LowerAlphabet == <<"a", "b", "c", "d", "e", "f", "g", "h", "i", "j", "k", "l", "m",
                   "n", "o", "p", "q", "r", "s", "t", "u", "v", "w", "x", "y", "z">>
DigitChars == <<"0", "1", "2", "3", "4", "5", "6", "7", "8", "9">>

\* String.prototype.toLowerCase, per character and per string
LowerChar(c) ==
    IF \E i \in DOMAIN UpperAlphabet : UpperAlphabet[i] = c
    THEN LowerAlphabet[CHOOSE i \in DOMAIN UpperAlphabet : UpperAlphabet[i] = c]
    ELSE c
toLowerCase(s) == [i \in DOMAIN s |-> LowerChar(s[i])]

\* String.prototype.includes
includes(s, w) == \E i \in 1..(Len(s) - Len(w) + 1) : SubSeq(s, i, i + Len(w) - 1) = w

\* The characters of the regular expressions' classes: \s, [a-z] under the i flag, \d
WhiteSpace == {" ", "\t"}
Letters == Range(UpperAlphabet) \cup Range(LowerAlphabet)
DigitSet == Range(DigitChars)
StampChars == WhiteSpace \cup Letters \cup DigitSet \cup {",", ":", ".", "-"}

\* timestampStr.trim()
RECURSIVE trimStart(_)
trimStart(s) == IF s # << >> /\ Head(s) \in WhiteSpace THEN trimStart(Tail(s)) ELSE s
RECURSIVE trimEnd(_)
trimEnd(s) ==
    IF s # << >> /\ s[Len(s)] \in WhiteSpace THEN trimEnd(SubSeq(s, 1, Len(s) - 1)) ELSE s
trim(s) == trimEnd(trimStart(s))

\* .replace(/\s+/g, ' ')
RECURSIVE collapseWhiteSpace(_)
collapseWhiteSpace(s) ==
    IF s = << >> THEN << >>
    ELSE IF Head(s) \in WhiteSpace
         THEN <<" ">> \o collapseWhiteSpace(trimStart(s))
         ELSE <<Head(s)>> \o collapseWhiteSpace(Tail(s))

\* The end (exclusive) of the longest run of characters of a class that starts at i:
\* what a greedy X+ consumes when the next term of the pattern cannot start with a
\* character of X.
RECURSIVE RunEnd(_, _, _)
RunEnd(s, i, class) ==
    IF i <= Len(s) /\ s[i] \in class THEN RunEnd(s, i + 1, class) ELSE i

NoMatch == [found |-> FALSE]

\* /^(?<day>[a-z]+)[\s,]+(?<month>[a-z]+)[\s,]+(?<dayOfMonth>\d+)[\s,]+(?<year>\d+)
\*  [\D\s,]+(?<hour>\d+)[\s:]+(?<minute>\d+)[\s,]+(?<timeOfDay>[a-z]+)/i
TIMESTAMP_DATETIME(s) ==
    LET sep == WhiteSpace \cup {","}
        a == RunEnd(s, 1, Letters)
        b == RunEnd(s, a, sep)
        c == RunEnd(s, b, Letters)
        d == RunEnd(s, c, sep)
        e == RunEnd(s, d, DigitSet)
        f == RunEnd(s, e, sep)
        g == RunEnd(s, f, DigitSet)
        h == RunEnd(s, g, StampChars \ DigitSet)
        i == RunEnd(s, h, DigitSet)
        j == RunEnd(s, i, WhiteSpace \cup {":"})
        k == RunEnd(s, j, DigitSet)
        l == RunEnd(s, k, sep)
        m == RunEnd(s, l, Letters)
    IN  IF 1 < a /\ a < b /\ b < c /\ c < d /\ d < e /\ e < f /\ f < g /\ g < h
           /\ h < i /\ i < j /\ j < k /\ k < l /\ l < m
        THEN [found |-> TRUE,
              day |-> SubSeq(s, 1, a - 1),
              month |-> SubSeq(s, b, c - 1),
              dayOfMonth |-> SubSeq(s, d, e - 1),
              year |-> SubSeq(s, f, g - 1),
              hour |-> SubSeq(s, h, i - 1),
              minute |-> SubSeq(s, j, k - 1),
              timeOfDay |-> SubSeq(s, l, m - 1)]
        ELSE NoMatch

\* date-fns, en-US: the month names the token MMMM parses, wide then abbreviated
MonthNames == <<<<"j", "a", "n", "u", "a", "r", "y">>,
               <<"f", "e", "b", "r", "u", "a", "r", "y">>,
               <<"m", "a", "r", "c", "h">>,
               <<"a", "p", "r", "i", "l">>,
               <<"m", "a", "y">>,
               <<"j", "u", "n", "e">>,
               <<"j", "u", "l", "y">>,
               <<"a", "u", "g", "u", "s", "t">>,
               <<"s", "e", "p", "t", "e", "m", "b", "e", "r">>,
               <<"o", "c", "t", "o", "b", "e", "r">>,
               <<"n", "o", "v", "e", "m", "b", "e", "r">>,
               <<"d", "e", "c", "e", "m", "b", "e", "r">>>>

\* parseDate(month, 'MMMM', new Date()) as a month number, 0 for an Invalid Date
parseDate(month) ==
    LET w == toLowerCase(month)
        hits == {n \in DOMAIN MonthNames :
                    w = MonthNames[n] \/ w = SubSeq(MonthNames[n], 1, 3)}
    IN  IF hits = {} THEN 0 ELSE CHOOSE n \in hits : TRUE

\* Number.parseInt of a run of digits
RECURSIVE parseInt(_)
parseInt(digits) ==
    IF digits = << >> THEN 0
    ELSE 10 * parseInt(SubSeq(digits, 1, Len(digits) - 1))
         + (CHOOSE n \in 0..9 : DigitChars[n + 1] = digits[Len(digits)])

\* A non-negative integer in a template literal
RECURSIVE NumberToString(_)
NumberToString(n) ==
    IF n < 10 THEN <<DigitChars[n + 1]>>
    ELSE NumberToString(n \div 10) \o <<DigitChars[(n % 10) + 1]>>

\* formatDate(monthDate, 'MM')
formatDate(monthNumber) ==
    IF monthNumber < 10 THEN <<"0">> \o NumberToString(monthNumber)
    ELSE NumberToString(monthNumber)

\* The character between year, month and day in the template literal of the return
\* value: U+2010 HYPHEN, one character, written here by its code point.
AsciiHyphen == "-"
TemplateHyphen == "U+2010"

Threw == [threw |-> TRUE]

\* const parseFBTimestamp = (timestampStr) => ...
parseFBTimestamp(timestampStr) ==
    LET normTimestampStr == collapseWhiteSpace(trim(timestampStr))
        regexRes == TIMESTAMP_DATETIME(normTimestampStr)
    IN  IF ~regexRes.found
        THEN Threw   \* month is undefined: formatDate throws on the Invalid Date
        ELSE LET parsedMonth == parseDate(regexRes.month)
                 hourAdjusted ==
                     IF includes(toLowerCase(regexRes.timeOfDay), <<"p", "m">>)
                     THEN NumberToString(parseInt(regexRes.hour) + 12)
                     ELSE regexRes.hour
             IN  IF parsedMonth = 0
                 THEN Threw
                 ELSE [threw |-> FALSE,
                       value |-> regexRes.year \o <<TemplateHyphen>>
                                 \o formatDate(parsedMonth) \o <<TemplateHyphen>>
                                 \o regexRes.dayOfMonth \o <<"T">> \o hourAdjusted
                                 \o <<":">> \o regexRes.minute
                                 \o <<":", "0", "0", "Z">>]

\* The tooltip texts the parser is given: written from their parts, so that a
\* property can name the parts.
Weekdays == {<<"M", "o", "n", "d", "a", "y">>, <<"F", "r", "i">>}
MonthWords == {<<"J", "a", "n", "u", "a", "r", "y">>,
               <<"F", "e", "b", "r", "u", "a", "r", "y">>,
               <<"M", "a", "r", "c", "h">>,
               <<"A", "p", "r", "i", "l">>,
               <<"M", "a", "y">>,
               <<"J", "u", "n", "e">>,
               <<"J", "u", "l", "y">>,
               <<"A", "u", "g", "u", "s", "t">>,
               <<"S", "e", "p", "t", "e", "m", "b", "e", "r">>,
               <<"O", "c", "t", "o", "b", "e", "r">>,
               <<"N", "o", "v", "e", "m", "b", "e", "r">>,
               <<"D", "e", "c", "e", "m", "b", "e", "r">>}
DaysOfMonth == {<<"2", "4">>, <<"5">>}
Years == {<<"2", "0", "1", "3">>, <<"1", "9", "9", "9">>}
Hours == {<<"5">>, <<"1", "1">>, <<"1", "2">>}
Minutes == {<<"2", "0">>, <<"0", "5">>}
TimesOfDay == {<<"A", "M">>, <<"P", "M">>, <<"p", "m">>}
Spacings == {<<" ">>, <<" ", "\t", " ">>}

\* "<Weekday>, <Month> <Day>, <Year> at <Hour>:<Minute> <AM|PM>"
DateTimeParts ==
    [form : {"datetime"}, day : Weekdays, month : MonthWords, dayOfMonth : DaysOfMonth,
     year : Years, hour : Hours, minute : Minutes, timeOfDay : TimesOfDay,
     space : Spacings]

\* Texts of other forms: a date without a time, a relative time, an unknown month.
\* The empty text is what a missing tooltip reads as.
OtherParts ==
    [form : {"empty", "date", "relative", "badMonth"}, day : {<<"F", "r", "i">>},
     month : {<<"J", "u", "n", "e">>}, dayOfMonth : DaysOfMonth, year : Years,
     hour : Hours, minute : Minutes, timeOfDay : {<<"P", "M">>}, space : {<<" ">>}]

StampParts == DateTimeParts \cup OtherParts

WriteStamp(p) ==
    LET sp == p.space
        time == p.hour \o <<":">> \o p.minute \o sp \o p.timeOfDay
        pad == IF Len(sp) > 1 THEN sp ELSE << >>
    IN  CASE p.form = "empty" -> << >>
          [] p.form = "datetime" ->
                 pad \o p.day \o <<",">> \o sp \o p.month \o sp \o p.dayOfMonth \o <<",">>
                 \o sp \o p.year \o sp \o <<"a", "t">> \o sp \o time \o pad
          [] p.form = "date" ->
                 p.month \o sp \o p.dayOfMonth \o <<",">> \o sp \o p.year
          [] p.form = "relative" ->
                 <<"Y", "e", "s", "t", "e", "r", "d", "a", "y">> \o sp \o <<"a", "t">>
                 \o sp \o time
          [] p.form = "badMonth" ->
                 p.day \o <<",">> \o sp \o <<"S", "o", "l">> \o sp \o p.dayOfMonth
                 \o <<",">> \o sp \o p.year \o sp \o <<"a", "t">> \o sp \o time

\* const timestampRaw = await getPostTimestampValue(ctx.page, logger);
\* const timestamp = timestampRaw ? parseFBTimestamp(timestampRaw) : null;
\* a throw leaves the handler; otherwise the handler goes on to push its entry.
ResolveTimestamp ==
    /\ stampPc = "raw"
    /\ LET res == IF timestampRaw = << >> THEN [threw |-> FALSE, value |-> << >>]
                  ELSE parseFBTimestamp(timestampRaw)
       IN  /\ stampPc' = IF res.threw THEN "failed" ELSE "resolved"
           /\ timestamp' = IF res.threw THEN timestamp
                           ELSE [isNull |-> timestampRaw = << >>, value |-> res.value]
    /\ UNCHANGED <<timestampRaw, rawParts, stampEmitted, nonStampVars>>

\* await ctx.actor.pushData(entry, ...) with the timestamp resolved
EmitWithTimestamp ==
    /\ stampPc = "resolved"
    /\ stampPc' = "done"
    /\ stampEmitted' = TRUE
    /\ UNCHANGED <<timestampRaw, rawParts, timestamp, nonStampVars>>

NoStamp == [isNull |-> TRUE, value |-> << >>]
NoParts == [form |-> "none", day |-> << >>, month |-> << >>, dayOfMonth |-> << >>,
            year |-> << >>, hour |-> << >>, minute |-> << >>, timeOfDay |-> << >>,
            space |-> << >>]

\* No timestamp is being resolved.
StampIdle ==
    /\ stampPc = "idle"
    /\ timestampRaw = << >>
    /\ rawParts = NoParts
    /\ timestamp = NoStamp
    /\ stampEmitted = FALSE

\* ------------------------------------------------------------------ stat parser
\* The candidates for the comments element that a page may hold.
MaxCandidates == 2

\* A JavaScript number m * 10^e in decimal, m not a multiple of 10 unless it is 0;
\* NaN; and null.
NullCount == [kind |-> "null"]
NaN == [kind |-> "NaN"]
RECURSIVE Num(_, _)
Num(m, e) ==
    IF m = 0 THEN [kind |-> "number", m |-> 0, e |-> 0]
    ELSE IF m % 10 = 0 THEN Num(m \div 10, e + 1)
    ELSE [kind |-> "number", m |-> m, e |-> e]

\* [\d,.]
CountChars == DigitSet \cup {",", "."}

\* The start of the first character of a class at or after i, Len(s) + 1 if none
RECURSIVE FirstOf(_, _, _)
FirstOf(s, i, class) ==
    IF i > Len(s) \/ s[i] \in class THEN i ELSE FirstOf(s, i + 1, class)

\* A capture group: found or not, and its text
NoGroup == [found |-> FALSE, text |-> << >>]
Group(s, from, to) == [found |-> TRUE, text |-> SubSeq(s, from, to - 1)]

\* /(?<comments>[\d,.]+)(?:\s+comment)?/i: the leftmost run of count characters
COMMENT_COUNT(s) ==
    LET from == FirstOf(s, 1, CountChars)
    IN  IF from > Len(s) THEN NoGroup ELSE Group(s, from, RunEnd(s, from, CountChars))

\* /like.*?(?<likes>[\d,.]+)/i: the first run of count characters after the
\* leftmost "like"
LIKE_COUNT(s) ==
    LET low == toLowerCase(s)
        word == <<"l", "i", "k", "e">>
        at == {i \in 1..(Len(s) - 3) : SubSeq(low, i, i + 3) = word}
    IN  IF at = {} THEN NoGroup
        ELSE LET first == CHOOSE i \in at : \A k \in at : i <= k
                 from == FirstOf(s, first + 4, CountChars)
             IN  IF from > Len(s) THEN NoGroup
                 ELSE Group(s, from, RunEnd(s, from, CountChars))

\* /(?<views>[\d,.]+)\s*(?<viewsUnit>[kmb])/i: the leftmost run of count characters
\* that optional white space and one of k, m, b follow. A shorter piece of a run
\* cannot match, the rest of the run being neither white space nor a unit.
RECURSIVE ViewCountFrom(_, _)
ViewCountFrom(s, i) ==
    LET from == FirstOf(s, i, CountChars)
        to == RunEnd(s, from, CountChars)
        unitAt == RunEnd(s, to, WhiteSpace)
    IN  IF from > Len(s) THEN [views |-> NoGroup, viewsUnit |-> NoGroup]
        ELSE IF unitAt <= Len(s) /\ LowerChar(s[unitAt]) \in {"k", "m", "b"}
        THEN [views |-> Group(s, from, to), viewsUnit |-> Group(s, unitAt, unitAt + 1)]
        ELSE ViewCountFrom(s, to)
VIEW_COUNT(s) == ViewCountFrom(s, 1)

\* /views/i
MatchesViews(s) ==
    \E i \in 1..(Len(s) - 4) :
        SubSeq(toLowerCase(s), i, i + 4) = <<"v", "i", "e", "w", "s">>

\* .replace(/[,\s]+/g, '')
stripSeparators(s) == SelectSeq(s, LAMBDA c : c \notin (WhiteSpace \cup {","}))

\* Number.parseFloat of a text of digits and periods: the longest leading decimal
\* literal, NaN when there is none
parseFloat(s) ==
    LET intEnd == RunEnd(s, 1, DigitSet)
        hasPoint == intEnd <= Len(s) /\ s[intEnd] = "."
        fracEnd == IF hasPoint THEN RunEnd(s, intEnd + 1, DigitSet) ELSE intEnd
        intDigits == SubSeq(s, 1, intEnd - 1)
        fracDigits == IF hasPoint THEN SubSeq(s, intEnd + 1, fracEnd - 1) ELSE << >>
    IN  IF intDigits = << >> /\ fracDigits = << >> THEN NaN
        ELSE Num(parseInt(intDigits \o fracDigits), 0 - Len(fracDigits))

\* viewsUnitMultiples = { k: 1000, m: 10 ** 6, b: 10 ** 9, t: 10 ** 12 }, as
\* powers of ten; (viewsUnitMultiples as any)[viewsUnit] || 1
viewsUnitMultiples == [k |-> 3, m |-> 6, b |-> 9, t |-> 12]
viewsMulti(viewsUnit) ==
    IF viewsUnit.found /\ viewsUnit.text \in {<<"k">>, <<"m">>, <<"b">>, <<"t">>}
    THEN viewsUnitMultiples[viewsUnit.text[1]]
    ELSE 0

\* viewsNum * viewsMulti
Scale(n, power) == IF n.kind = "number" THEN Num(n.m, n.e + power) ELSE n

\* likes ? Number.parseFloat(likes.replace(/[,\s]+/g, '')) : 0
CountOf(group) ==
    IF group.found /\ group.text # << >> THEN parseFloat(stripSeparators(group.text))
    ELSE Num(0, 0)

\* The texts a page may show.
LikeLabels == {<<"L", "i", "k", "e", ":", " ", "2", ",", "4", "0", "0", " ", "p", "e", "o", "p", "l", "e">>,
              <<"L", "i", "k", "e", ":", " ", "2", "6">>,
              <<"L", "i", "k", "e", ":", " ">>,
              <<"L", "i", "k", "e", ":", " ", "1", ".", "5", "K", " ", "p", "e", "o", "p", "l", "e">>}
CandidateTexts == {<<"6", ",", "0", "0", "0", " ", "c", "o", "m", "m", "e", "n", "t", "s">>,
                  <<"1", " ", "c", "o", "m", "m", "e", "n", "t">>,
                  <<"S", "h", "a", "r", "e">>}
ViewTexts == {<<"6", ".", "9", "K", " ", "v", "i", "e", "w", "s">>,
             <<"1", "2", "0", " ", "v", "i", "e", "w", "s">>,
             <<"2", ".", "5", "M", " ", "v", "i", "e", "w", "s">>,
             <<"3", "B", " ", "v", "i", "e", "w", "s">>,
             <<"1", ".", "2", "T", " ", "v", "i", "e", "w", "s">>,
             <<"1", ",", "2", "3", "4", " ", " ", "k", " ", "v", "i", "e", "w", "s">>,
             <<"1", " ", "v", "i", "e", "w">>}

\* What dom holds: the element with aria-label "Like:" (its label may read null),
\* the candidates for the comments element in document order, and a child of the
\* stats container beside the two.
LikesEls ==
    [found : {FALSE}, hasLabel : {FALSE}, label : {<< >>}]
        \cup [found : {TRUE}, hasLabel : {FALSE}, label : {<< >>}]
        \cup [found : {TRUE}, hasLabel : {TRUE}, label : LikeLabels]
CandidateLists == SeqsUpTo(CandidateTexts, MaxCandidates)
StatEls == [found : {FALSE}, text : {<< >>}] \cup [found : {TRUE}, text : ViewTexts]
StatsPages == [likes : LikesEls, candidates : CandidateLists, views : StatEls]

\* serialAsyncFind(commentElCandidates, text matches COMMENT_COUNT): the first one
CommentsEl(candidates) ==
    LET hits == {i \in DOMAIN candidates : COMMENT_COUNT(candidates[i]).found}
    IN  IF hits = {} THEN [found |-> FALSE, text |-> << >>]
        ELSE [found |-> TRUE, text |-> candidates[CHOOSE i \in hits : \A k \in hits : i <= k]]

\* let likesCount = null; if (likesEl) { ... }
ExtractLikesZeroIfAbsent(likesEl) ==
    IF likesEl.found
    THEN CountOf(LIKE_COUNT(IF likesEl.hasLabel THEN likesEl.label
                            ELSE <<"l", "i", "k", "e", ":", " ", "0">>))
    ELSE Num(0, 0)
ExtractLikes(likesEl) ==
    IF likesEl.found
    THEN CountOf(LIKE_COUNT(IF likesEl.hasLabel THEN likesEl.label
                            ELSE <<"l", "i", "k", "e", ":", " ", "0">>))
    ELSE NullCount

\* let commentsCount = null; if (commentsEl) { ... }
ExtractComments(commentsEl) ==
    IF commentsEl.found THEN CountOf(COMMENT_COUNT(commentsEl.text)) ELSE NullCount

\* let viewsCount = null; if (statsContainerEl) { ... if (viewsEl) { ... } }
ExtractViewsAnywhere(statsContainerEl, child) ==
    IF child.found /\ MatchesViews(child.text)
    THEN LET regexRes == VIEW_COUNT(toLowerCase(child.text))
         IN  Scale(CountOf(regexRes.views), viewsMulti(regexRes.viewsUnit))
    ELSE NullCount
ExtractViews(statsContainerEl, child) ==
    IF statsContainerEl /\ child.found /\ MatchesViews(child.text)
    THEN LET regexRes == VIEW_COUNT(toLowerCase(child.text))
         IN  Scale(CountOf(regexRes.views), viewsMulti(regexRes.viewsUnit))
    ELSE NullCount

\* const getPostStats = async (dom) => ..., on the texts of the page
PostStats(dom) ==
    LET likesEl == dom.likes
        commentsEl == CommentsEl(dom.candidates)
        statsContainerEl == likesEl.found /\ commentsEl.found
    IN  [likesCount |-> ExtractLikes(likesEl),
         commentsCount |-> ExtractComments(commentsEl),
         viewsCount |-> ExtractViews(statsContainerEl, dom.views),
         sharesCount |-> NullCount]

NoStats == [likesCount |-> NullCount, commentsCount |-> NullCount,
            viewsCount |-> NullCount, sharesCount |-> NullCount]
NoStatsPage == [likes |-> [found |-> FALSE, hasLabel |-> FALSE, label |-> << >>],
                candidates |-> << >>,
                views |-> [found |-> FALSE, text |-> << >>]]

\* const stats = await getPostStats(dom)
ReadStats ==
    /\ statsPc = "dom"
    /\ postStats' = PostStats(statsDom)
    /\ statsPc' = "done"
    /\ UNCHANGED <<statsDom, nonStatsVars>>

\* getPostStats is not running.
StatsIdle ==
    /\ statsPc = "idle"
    /\ statsDom = NoStatsPage
    /\ postStats = NoStats

\* ------------------------------------------------------------------ payload walk
\* The most items an array, and values an object, of a payload holds.
MaxWidth == 2

\* A parsed payload is a leaf value, an array of payloads or an object whose values
\* are payloads; an object's values are kept in key order.
LeafNode(v) == [kind |-> "leaf", val |-> v, items |-> << >>]
ArrayNode(items) == [kind |-> "array", val |-> "", items |-> items]
ObjectNode(values) == [kind |-> "object", val |-> "", items |-> values]

LeafNodes == {LeafNode("a"), LeafNode(Null)}
Containers(of) ==
    {ArrayNode(q) : q \in SeqsUpTo(of, MaxWidth)}
        \cup {ObjectNode(q) : q \in SeqsUpTo(of, MaxWidth)}

\* What a script's text parses to; null for a script without text.
Payloads == LeafNodes \cup Containers(LeafNodes)

\* const scriptCandidates = [...].filter(prefilter).map(JSON.parse or eval or null)
ScriptCandidates == {ArrayNode(q) : q \in SeqsUpTo(Payloads, MaxWidth)}

\* The filter functions given to the walk, by what they accept.
Filters == {"array", "object", "truthy", "string"}
filterFn(f, d) ==
    CASE f = "array" -> d.kind = "array"
      [] f = "object" -> d.kind = "object"
      [] f = "truthy" -> d.kind # "leaf" \/ d.val # Null
      [] f = "string" -> d.kind = "leaf" /\ d.val # Null

\* Array.isArray(innerD) ? its items : a non-null object ? Object.values(innerD)
ChildrenOfObjectsOnly(d) == IF d.kind = "object" THEN d.items ELSE << >>
ChildrenOf(d) == IF d.kind \in {"array", "object"} THEN d.items ELSE << >>

\* items.forEach((item) => queue.unshift(item)): each item goes to the front in
\* turn; an item carries the path of indexes that leads to it from the root.
RECURSIVE PushEach(_, _, _, _)
PushEach(queue, items, path, k) ==
    IF k > Len(items) THEN queue
    ELSE PushEach(Append(queue, [path |-> Append(path, k), node |-> items[k]]),
                  items, path, k + 1)
RECURSIVE UnshiftEach(_, _, _, _)
UnshiftEach(queue, items, path, k) ==
    IF k > Len(items) THEN queue
    ELSE UnshiftEach(<<[path |-> Append(path, k), node |-> items[k]]>> \o queue,
                     items, path, k + 1)

\* const queue = [d]; const results = [];
WalkStart ==
    /\ walkPc = "called"
    /\ walkQueue' = <<[path |-> << >>, node |-> walkRoot]>>
    /\ walkResults' = << >>
    /\ walkPc' = "loop"
    /\ UNCHANGED <<walkRoot, walkFilterFn, nonWalkVars>>

\* while (queue.length) { const currItem = queue.shift(); innerWalkFind(currItem); }
WalkStep ==
    /\ walkPc = "loop"
    /\ walkQueue # << >>
    /\ LET currItem == Head(walkQueue)
       IN  /\ walkResults' = IF filterFn(walkFilterFn, currItem.node)
                             THEN Append(walkResults, currItem)
                             ELSE walkResults
           /\ walkQueue' = UnshiftEach(Tail(walkQueue), ChildrenOf(currItem.node),
                                       currItem.path, 1)
    /\ UNCHANGED <<walkRoot, walkFilterFn, walkPc, nonWalkVars>>

\* return results;
WalkReturn ==
    /\ walkPc = "loop"
    /\ walkQueue = << >>
    /\ walkPc' = "returned"
    /\ UNCHANGED <<walkRoot, walkFilterFn, walkQueue, walkResults, nonWalkVars>>

\* The nesting depth of a visited node: the length of its path from the root.
Depth(item) == Len(item.path)

\* The order in which shift and unshift bring the nodes under an item to the front
\* of the queue: the item, then each of its children from the last to the first,
\* each followed by all that is under it.
RECURSIVE VisitOrder(_)
RECURSIVE VisitOrderOfChildren(_, _)
VisitOrder(item) == <<item>> \o VisitOrderOfChildren(item, Len(ChildrenOf(item.node)))
VisitOrderOfChildren(item, k) ==
    IF k = 0 THEN << >>
    ELSE VisitOrder([path |-> Append(item.path, k), node |-> ChildrenOf(item.node)[k]])
             \o VisitOrderOfChildren(item, k - 1)
MatchesIn(f, items) == SelectSeq(items, LAMBDA it : filterFn(f, it.node))
IsPrefix(s, t) == Len(s) <= Len(t) /\ s = SubSeq(t, 1, Len(s))

\* walkFilter is not running.
WalkIdle ==
    /\ walkPc = "idle"
    /\ walkRoot = ArrayNode(<< >>)
    /\ walkFilterFn = "truthy"
    /\ walkQueue = << >>
    /\ walkResults = << >>

\* ------------------------------------------------------------------ payload search

MaxScripts == 2

\* The texts of the page's script elements.
JsonObjectText == "{\"result\":[\"a\"]}"
JsonArrayText == "[\"result\"]"
JsonUnmarkedText == "{\"data\":\"a\"}"
ObjectLiteralText == "({result: 'a'})"
StatementText == "var result = 'a';"
BrokenText == "{result: "
EmptyText == ""
ScriptTexts == {JsonObjectText, JsonArrayText, JsonUnmarkedText, ObjectLiteralText,
                StatementText, BrokenText, EmptyText}

\* (el) => el.textContent && el.textContent.includes('result')
prefilter(text) == text # EmptyText /\ text # JsonUnmarkedText

\* JSON.parse and eval: the value, or Threw for a SyntaxError.
JSONparse(text) ==
    CASE text = JsonObjectText -> ObjectNode(<<ArrayNode(<<LeafNode("a")>>)>>)
      [] text = JsonArrayText -> ArrayNode(<<LeafNode("a")>>)
      [] text = JsonUnmarkedText -> ObjectNode(<<LeafNode("a")>>)
      [] OTHER -> Threw
evalText(text) ==
    CASE text = ObjectLiteralText -> ObjectNode(<<LeafNode("a")>>)
      [] text = StatementText -> LeafNode(Null)
      [] text = EmptyText -> LeafNode(Null)
      [] OTHER -> Threw

\* if (!el.textContent) return null;
\* try { return JSON.parse(el.textContent); } catch (e) { return eval(el.textContent); }
ParseScript(text) ==
    IF text = EmptyText THEN LeafNode(Null)
    ELSE IF JSONparse(text) # Threw THEN JSONparse(text)
    ELSE evalText(text)

\* [...document.querySelectorAll(selector)].filter(prefilter)
SearchSelect ==
    /\ searchPc = "called"
    /\ toParse' = SelectSeq(scriptEls, prefilter)
    /\ searchPc' = "map"
    /\ UNCHANGED <<scriptEls, searchFilter, scriptCandidates, matchedPayloads, callerPc,
                   nonSearchVars>>

\* .map((el) => ...): one element; an exception of eval leaves page.evaluate and
\* rejects the promise searchFbPayloads returns.
SearchParse ==
    /\ searchPc = "map"
    /\ toParse # << >>
    /\ LET parsed == ParseScript(Head(toParse))
       IN  IF parsed = Threw
           THEN /\ searchPc' = "rejected"
                /\ UNCHANGED <<toParse, scriptCandidates>>
           ELSE /\ scriptCandidates' = Append(scriptCandidates, parsed)
                /\ toParse' = Tail(toParse)
                /\ UNCHANGED searchPc
    /\ UNCHANGED <<scriptEls, searchFilter, matchedPayloads, callerPc, nonSearchVars>>

\* return walkFilter(scriptCandidates, filter);
SearchWalk ==
    /\ searchPc = "map"
    /\ toParse = << >>
    /\ matchedPayloads' =
           MatchesIn(searchFilter,
                     VisitOrder([path |-> << >>, node |-> ArrayNode(scriptCandidates)]))
    /\ searchPc' = "resolved"
    /\ UNCHANGED <<scriptEls, searchFilter, toParse, scriptCandidates, callerPc,
                   nonSearchVars>>

\* const [rawPhotoPayload] = await searchFbPayloads(page, photoFilter, { prefilter });
SearchAwaited ==
    /\ callerPc = "awaiting"
    /\ searchPc \in {"resolved", "rejected"}
    /\ callerPc' = IF searchPc = "resolved" THEN "continues" ELSE "threw"
    /\ UNCHANGED <<scriptEls, searchFilter, toParse, scriptCandidates, matchedPayloads,
                   searchPc, nonSearchVars>>

\* searchFbPayloads is not running.
SearchIdle ==
    /\ searchPc = "idle"
    /\ callerPc = "idle"
    /\ scriptEls = << >>
    /\ searchFilter = "truthy"
    /\ toParse = << >>
    /\ scriptCandidates = << >>
    /\ matchedPayloads = << >>

RestIdle == TimerIdle /\ StampIdle /\ StatsIdle /\ WalkIdle /\ SearchIdle

\* No concurrent run.
PairIdle ==
    /\ invocations = << >>
    /\ counterCells = << >>
    /\ sharedQueue = << >>
    /\ records = << >>

\* No handler has started.
HandlerIdle ==
    /\ pc = "start"
    /\ error = "none"
    /\ errorLogged = FALSE
    /\ data = NoRecord
    /\ afterPayload = NoRecord
    /\ local = NoLocal
    /\ calls = << >>
    /\ reqQueue = << >>
    /\ dataset = << >>
    /\ itemsCount = 0
    /\ containerEl = Null
    /\ children = 0
    /\ processed = {}
    /\ newEls = << >>
    /\ links = << >>
    /\ shouldContinue = TRUE
    /\ tick = 0
    /\ handed = [e \in 1..MaxItems |-> 0]
    /\ discovered = << >>

\* One invocation of a handler on a page.
Init ==
    /\ label \in Labels
    /\ page \in Pages(label)
    /\ outputMaxEntries \in (IF label \in Paginating THEN MaxEntriesInputs ELSE {{}})
    /\ HandlerIdle
    /\ url = NoUrl
    /\ routePc = "idle"
    /\ routeLabel = Null
    /\ groups = NoGroups
    /\ PairIdle
    /\ RestIdle

\* One request to route.
\* A visit of a page with a list and without payload scripts, outputMaxEntries set
\* to a number.
InitPaginate ==
    /\ Init
    /\ label \in Paginating
    /\ ~page.scripts
    /\ outputMaxEntries # {}

InitRoute ==
    /\ url \in Urls
    /\ routePc = "queued"
    /\ routeLabel = Null
    /\ groups = NoGroups
    /\ label = Null
    /\ page = [scripts |-> FALSE, container |-> FALSE, items |-> 0]
    /\ outputMaxEntries = {}
    /\ HandlerIdle
    /\ PairIdle
    /\ RestIdle

\* No request is being routed.
RouteIdle ==
    /\ url = NoUrl
    /\ routePc = "idle"
    /\ routeLabel = Null
    /\ groups = NoGroups

\* Two invocations of the album handler are about to locate their containers.
InitPair ==
    /\ invocations \in [Invocations -> {PairStart(p) : p \in PairPages}]
    /\ counterCells = [c \in Invocations |-> 0]
    /\ sharedQueue = << >>
    /\ records = [i \in Invocations |-> << >>]
    /\ outputMaxEntries \in PairMaxEntriesInputs
    /\ label = "FB_MEDIA_ALBUM"
    /\ page = [scripts |-> FALSE, container |-> FALSE, items |-> 0]
    /\ HandlerIdle
    /\ RouteIdle
    /\ RestIdle

\* No handler, router or concurrent run is in progress.
CrawlIdle ==
    /\ label = Null
    /\ page = [scripts |-> FALSE, container |-> FALSE, items |-> 0]
    /\ outputMaxEntries = {}
    /\ HandlerIdle
    /\ RouteIdle
    /\ PairIdle

\* One page visit, the wrapper about to be called.
InitTimer ==
    /\ intervalId = "none"
    /\ isClosed = FALSE
    /\ outcome = "waiting"
    /\ ticks = << >>
    /\ CrawlIdle
    /\ StampIdle
    /\ StatsIdle
    /\ WalkIdle
    /\ SearchIdle

\* One tooltip text read by a handler.
InitStamp ==
    /\ \E p \in StampParts :
          /\ rawParts = p
          /\ timestampRaw = WriteStamp(p)
    /\ stampPc = "raw"
    /\ timestamp = NoStamp
    /\ stampEmitted = FALSE
    /\ CrawlIdle
    /\ TimerIdle
    /\ StatsIdle
    /\ WalkIdle
    /\ SearchIdle

\* One page whose stats are about to be read.
InitStats ==
    /\ statsDom \in StatsPages
    /\ postStats = NoStats
    /\ statsPc = "dom"
    /\ CrawlIdle
    /\ TimerIdle
    /\ StampIdle
    /\ WalkIdle
    /\ SearchIdle

\* One call of walkFilter on the parsed scripts of a page.
InitWalk ==
    /\ walkRoot \in ScriptCandidates
    /\ walkFilterFn \in Filters
    /\ walkQueue = << >>
    /\ walkResults = << >>
    /\ walkPc = "called"
    /\ CrawlIdle
    /\ TimerIdle
    /\ StampIdle
    /\ StatsIdle
    /\ SearchIdle

\* One call of searchFbPayloads on a page with up to MaxScripts script elements.
InitSearch ==
    /\ scriptEls \in SeqsUpTo(ScriptTexts, MaxScripts)
    /\ searchFilter \in Filters
    /\ toParse = << >>
    /\ scriptCandidates = << >>
    /\ matchedPayloads = << >>
    /\ searchPc = "called"
    /\ callerPc = "awaiting"
    /\ CrawlIdle
    /\ TimerIdle
    /\ StampIdle
    /\ StatsIdle
    /\ WalkIdle

\* ------------------------------------------------------------------ properties
MediaLabels == {"FB_MEDIA_PHOTO", "FB_MEDIA_VIDEO", "FB_MEDIA_ALBUM"}
Called(name) == \E i \in DOMAIN calls : calls[i] = name
CallsOf(name) == {i \in DOMAIN calls : calls[i] = name}
Enqueued == Range(reqQueue)

\* C1: in a pagination run the links found in a tick are in the request queue
\* before the next scroll is triggered; so in every state of the run, a failed one
\* included, the links of all earlier ticks are in the queue.
C1_LinksEnqueuedWithinTick ==
    label \in Paginating =>
        /\ \A t \in 1..(tick - 1) : discovered[t] \subseteq Enqueued
        /\ pc = "scroll" => \A t \in 1..tick : discovered[t] \subseteq Enqueued
\* A run that failed in its second tick or later, after a tick that found links.
C1_Witness ==
    /\ label \in Paginating
    /\ pc = "failed"
    /\ tick >= 2
    /\ discovered[1] # {}

\* C2: with outputMaxEntries = N stop is signalled only when the running total is
\* strictly greater than N, and no tick is started or under way once it is; after
\* the stop there is exactly one final wait and no addRequests follows it. With
\* outputMaxEntries null or absent stop is never signalled.
AboveMax == \E n \in outputMaxEntries : itemsCount > n
C2_StopsFirstAboveMax ==
    label \in Paginating =>
        /\ ~shouldContinue => AboveMax
        /\ pc \in {"scroll", "wait", "diff", "links"} => shouldContinue /\ ~AboveMax
        /\ outputMaxEntries = {} => shouldContinue
        /\ shouldContinue => ~Called("finalWait")
        /\ (~shouldContinue /\ pc \in {"push", "done"}) =>
              /\ Cardinality(CallsOf("finalWait")) = 1
              /\ \A i \in CallsOf("addRequests"), j \in CallsOf("finalWait") : i < j
\* A run whose first tick brought the total to exactly N and went on, and whose
\* second tick stopped it.
C2_Witness ==
    /\ label \in Paginating
    /\ pc = "done"
    /\ ~shouldContinue
    /\ tick = 2
    /\ discovered[1] # {}
    /\ outputMaxEntries = {Cardinality(discovered[1])}

\* C3: no element of the container is handed to link extraction in more than one
\* tick, and no link is enqueued twice.
C3_NoElementHandedTwice ==
    label \in Paginating =>
        /\ \A e \in DOMAIN handed : handed[e] <= 1
        /\ \A i, j \in DOMAIN reqQueue : reqQueue[i] = reqQueue[j] => i = j
\* A later tick hands over a batch while elements of an earlier tick are still in
\* the container.
C3_Witness ==
    /\ label \in Paginating
    /\ tick >= 2
    /\ pc = "links"
    /\ processed \ Range(newEls) # {}

\* C4: a field that is non-null after the payload stage has the same value in the
\* emitted record.
C4_PayloadValueKept ==
    \A i \in DOMAIN dataset :
        \A f \in DOMAIN afterPayload :
            ~Nullish(afterPayload[f]) => dataset[i].entry[f] = afterPayload[f]

\* C5 as stated: every completed photo, video or album invocation has written
\* exactly one record.
C5_ExactlyOneRecord ==
    (label \in MediaLabels /\ pc = "done") => Len(dataset) = 1
\* C5 as amended: a completed photo or video invocation has written exactly one
\* record; a completed album invocation has written exactly one when the container
\* of the list was found and none when it was not; nothing is written before an
\* invocation completes.
C5_OneRecordUnlessNoContainer ==
    label \in MediaLabels =>
        /\ pc = "done" =>
              Len(dataset) = (IF label = "FB_MEDIA_ALBUM" /\ ContainerMissing(containerEl)
                              THEN 0 ELSE 1)
        /\ pc # "done" => dataset = << >>
\* An album invocation that paginated and then wrote its record.
C5_Witness ==
    /\ label = "FB_MEDIA_ALBUM"
    /\ pc = "done"
    /\ tick >= 1
    /\ reqQueue # << >>
    /\ Len(dataset) = 1

\* C6: when no container is found, the tab and the album handler log an error and
\* return without an exception, without a scroll, without a request enqueued and
\* without a record.
C6_MissingContainerReturns ==
    (label \in Paginating /\ Called("getCommonAncestorFromSelector") /\ ~page.container) =>
        /\ errorLogged
        /\ pc = "done"
        /\ error = "none"
        /\ ~Called("scrollIntoView")
        /\ ~Called("addRequests")
        /\ reqQueue = << >>
        /\ dataset = << >>
\* The album handler returned on a page without a container.
C6_Witness ==
    /\ label = "FB_MEDIA_ALBUM"
    /\ Called("getCommonAncestorFromSelector")
    /\ ~page.container
    /\ pc = "done"

\* C7: the selected label is that of the earliest route, in the order TAB, MEDIA,
\* GROUP, ALBUM, PHOTO, VIDEO, whose match holds; a URL that no route matches gets
\* no label and no error.
EarliestMatch(u) ==
    IF match("FB_GROUP_MEDIA_TAB", u) THEN "FB_GROUP_MEDIA_TAB"
    ELSE IF match("FB_GROUP_MEDIA", u) THEN "FB_GROUP_MEDIA"
    ELSE IF match("FB_GROUP", u) THEN "FB_GROUP"
    ELSE IF match("FB_MEDIA_ALBUM", u) THEN "FB_MEDIA_ALBUM"
    ELSE IF match("FB_MEDIA_PHOTO", u) THEN "FB_MEDIA_PHOTO"
    ELSE IF match("FB_MEDIA_VIDEO", u) THEN "FB_MEDIA_VIDEO"
    ELSE Null
C7_FirstMatchWins ==
    routePc # "queued" =>
        /\ routeLabel = EarliestMatch(url)
        /\ routePc = "skipped" <=> \A i \in DOMAIN routes : ~match(routes[i], url)
        /\ error = "none"
\* A URL that two routes match got the label of the earlier one.
C7_Witness ==
    /\ routePc = "routed"
    /\ routeLabel = "FB_GROUP_MEDIA"
    /\ match("FB_GROUP", url)

\* The paths C8 is about, as written in the URL.
ClaimAlnumWords ==
    {w \in Words : \A i \in DOMAIN w : w[i] \in LowerLetters \cup Digits}
ClaimUserIdWords == {w \in Words : \A i \in DOMAIN w : w[i] \in UserIdChars}
FoldWord(w) == [i \in DOMAIN w |-> Fold(w[i])]
IsGroupPath(u) ==
    /\ Len(u.segments) = 2
    /\ u.segments[1] = WGroups
    /\ u.segments[2] \in ClaimAlnumWords
IsGroupMediaPath(u) ==
    /\ Len(u.segments) = 3
    /\ u.segments[1] = WGroups
    /\ u.segments[2] \in ClaimAlnumWords
    /\ u.segments[3] = WMedia
IsTabPath(u) ==
    /\ Len(u.segments) = 4
    /\ u.segments[1] = WGroups
    /\ u.segments[2] \in ClaimAlnumWords
    /\ u.segments[3] = WMedia
    /\ u.segments[4] \in ClaimAlnumWords
IsAlbumPath(u) == u.segments = <<WMedia, WSet>>
IsPhotoPath(u) == u.segments = <<WPhoto>>
IsVideoPath(u) ==
    /\ Len(u.segments) = 3
    /\ u.segments[1] \in ClaimUserIdWords
    /\ u.segments[2] = WVideos
    /\ u.segments[3] \in ClaimAlnumWords
\* The user ids that make a video path one of another route, or another path.
ShadowedUserId(w) == FoldWord(w) \in {WGroups, WPhoto} \/ w \in {WDot, WDotDot}

LabelledAsPath(u, videoPaths) ==
    /\ IsTabPath(u) =>
          /\ routeLabel = "FB_GROUP_MEDIA_TAB"
          /\ groups = [groupId |-> u.segments[2], tab |-> u.segments[4]]
    /\ IsGroupMediaPath(u) => routeLabel = "FB_GROUP_MEDIA"
    /\ IsGroupPath(u) => routeLabel = "FB_GROUP"
    /\ IsAlbumPath(u) => routeLabel = "FB_MEDIA_ALBUM"
    /\ IsPhotoPath(u) => routeLabel = "FB_MEDIA_PHOTO"
    /\ (IsVideoPath(u) /\ videoPaths) =>
          /\ routeLabel = "FB_MEDIA_VIDEO"
          /\ groups = [userId |-> u.segments[1], videoId |-> u.segments[3]]

\* C8 as stated: each of the six paths, with or without a trailing slash and with
\* any query, gets its label (and the tab and video paths their captures), for
\* every userId in [\w.-]+.
C8_PathsLabelled ==
    routePc \in {"handled", "skipped"} => LabelledAsPath(url, TRUE)
\* C8 as amended: the same, the video path only for a userId that is none of
\* "groups" and "photo" (in any letter case), "." and "..".
C8_PathsLabelledUnlessShadowed ==
    routePc \in {"handled", "skipped"} =>
        LabelledAsPath(url, ~ShadowedUserId(url.segments[1]))
\* A video path with a dotted user id, a trailing slash and a query was labelled.
C8_Witness ==
    /\ routePc = "handled"
    /\ IsVideoPath(url)
    /\ url.segments[1] = WDotted
    /\ url.slash
    /\ url.query # ""
    /\ groups = [userId |-> WDotted, videoId |-> url.segments[3]]

\* C9 as stated: no URL satisfies the match of two different routes.
Matching(u) == {l \in Range(routes) : match(l, u)}
C9_AtMostOneMatch == routePc # "queued" => Cardinality(Matching(url)) <= 1
\* C9 as amended: no URL satisfies the match of two of the routes TAB, MEDIA, ALBUM
\* and PHOTO, and whatever TAB or MEDIA matches, GROUP matches too.
C9_ExclusiveButGroupAndVideo ==
    routePc # "queued" =>
        /\ Cardinality(Matching(url) \ {"FB_GROUP", "FB_MEDIA_VIDEO"}) <= 1
        /\ Matching(url) \cap {"FB_GROUP_MEDIA_TAB", "FB_GROUP_MEDIA"} # {} =>
              "FB_GROUP" \in Matching(url)
\* A tab URL was routed: TAB and GROUP match it, MEDIA does not.
C9_Witness ==
    /\ routePc = "routed"
    /\ routeLabel = "FB_GROUP_MEDIA_TAB"
    /\ Matching(url) = {"FB_GROUP_MEDIA_TAB", "FB_GROUP"}

\* C10: on a page where the payload search finds nothing, the payload stage of
\* the photo, video and album handlers raises no error.
C10_NoPayloadIsNoError ==
    (label \in MediaLabels /\ ~page.scripts) =>
        ~(/\ error = "thrown"
          /\ calls # << >>
          /\ calls[Len(calls)] = "searchFbPayloads")

\* C11: every record handed to the dataset write carries a privacy mask that
\* covers the identity fields of its variant: authorName and authorProfileUrl for
\* photo and video records, the owner fields and contributors for album records.
IdentityFields(type) ==
    IF type = "album"
    THEN {"ownerFbid", "ownerName", "ownerUsername", "ownerType", "contributors"}
    ELSE {"authorName", "authorProfileUrl"}
C11_RecordsCarryMask ==
    \A i \in DOMAIN dataset :
        /\ IdentityFields(dataset[i].entry.type) \subseteq dataset[i].privacyMask
        /\ IdentityFields(dataset[i].entry.type) \subseteq DOMAIN dataset[i].entry
\* A video record was written.
C11_Witness ==
    /\ label = "FB_MEDIA_VIDEO"
    /\ pc = "done"
    /\ dataset # << >>
    /\ dataset[1].entry.authorName = "P"

\* C12: in an album's pagination run, whenever a tick has ended the running
\* itemsCount is the number of requests submitted to the queue so far, and the
\* itemsCount of the album record is that number when the run ended.
C12_CountIsRequestsSubmitted ==
    label = "FB_MEDIA_ALBUM" =>
        /\ pc \in {"scroll", "wait", "diff", "links", "finalWait", "push"} =>
              itemsCount = Len(reqQueue)
        /\ \A i \in DOMAIN dataset : dataset[i].entry.itemsCount = Len(reqQueue)
\* An album record written after two ticks that each enqueued links.
C12_Witness ==
    /\ label = "FB_MEDIA_ALBUM"
    /\ pc = "done"
    /\ tick >= 2
    /\ discovered[1] # {}
    /\ discovered[2] # {}
    /\ dataset # << >>
    /\ dataset[1].entry.itemsCount = Len(reqQueue)

\* C13: the FB_GROUP handler enqueues the visited URL with the path
\* /groups/<groupId>/media, and the router labels that URL FB_GROUP_MEDIA: a
\* chain of requests passes through FB_GROUP at most once.
C13_GroupRedirectsOnce ==
    /\ Cardinality(CallsOf("addRequest")) <= 1
    /\ routePc = "redirected" =>
          /\ Len(reqQueue) = 1
          /\ reqQueue[1].segments = <<WGroups, groups.groupId, WMedia>>
          /\ reqQueue[1].query = url.query
          /\ groups.groupId = Segment(url, 2)
    /\ (Called("addRequest") /\ routePc \in {"routed", "handled", "skipped"}) =>
          routeLabel = "FB_GROUP_MEDIA"
\* A group URL with further segments was redirected and its media URL labelled.
C13_Witness ==
    /\ Called("addRequest")
    /\ routePc = "handled"
    /\ routeLabel = "FB_GROUP_MEDIA"
    /\ url.query # ""

\* C14: under every interleaving of two invocations, each one's running count is
\* the number of links it has enqueued itself, it signals stop only when that
\* number exceeds outputMaxEntries, and the itemsCount of its album record is the
\* number of links that invocation enqueued.
C14_InvocationsIndependent ==
    \A i \in DOMAIN invocations :
        /\ invocations[i].pc \in {"scroll", "diff", "links", "finalWait", "push"} =>
              counterCells[itemsCountOf(i)] = Len(AddedBy(i))
        /\ ~invocations[i].shouldContinue =>
              \E n \in outputMaxEntries : Len(AddedBy(i)) > n
        /\ invocations[i].pc \in {"scroll", "diff", "links"} =>
              ~\E n \in outputMaxEntries : Len(AddedBy(i)) > n
        /\ \A k \in DOMAIN records[i] : records[i][k].itemsCount = Len(AddedBy(i))
\* Both invocations enqueued links, the second one's between two batches of the
\* first, and both wrote their record.
C14_Witness ==
    /\ invocations # << >>
    /\ \A i \in DOMAIN invocations : invocations[i].pc = "done" /\ records[i] # << >>
    /\ \E a, b, c \in DOMAIN sharedQueue :
          /\ a < b
          /\ b < c
          /\ sharedQueue[a].by = 1
          /\ sharedQueue[b].by = 2
          /\ sharedQueue[c].by = 1

\* C15: once the page is closed the popup timer is eventually cleared, whether the
\* handler returned, returned early, threw or is still running; and an interval
\* callback that starts after the page is closed issues no popup check and no click.
C15_TimerClearedAfterClose ==
    /\ [](\A t \in DOMAIN ticks :
             ticks[t].closedAtStart => ticks[t].issued = 0 /\ ticks[t].pc = "done")
    /\ [](intervalId = "cleared" => isClosed)
    /\ (isClosed ~> intervalId = "cleared")

\* The handler threw, the page was closed while an earlier callback was still
\* checking, and the next callback cleared the timer.
C15_Witness ==
    /\ outcome = "threw"
    /\ isClosed
    /\ intervalId = "cleared"
    /\ \E t \in EarlyTicks : ticks[t].issued > 0
    /\ \E t \in LateTicks : ticks[t].pc = "done"

\* The timestamp a text of the form "<Weekday>, <Month> <Day>, <Year> at
\* <Hour>:<Minute> <AM|PM>" stands for, with hyphen h between year, month and day.
ExpectedTimestamp(p, h) ==
    LET mm == CHOOSE n \in DOMAIN MonthNames : MonthNames[n] = toLowerCase(p.month)
        hh == IF toLowerCase(p.timeOfDay) = <<"p", "m">>
              THEN NumberToString(parseInt(p.hour) + 12)
              ELSE p.hour
    IN  p.year \o <<h>> \o (IF mm < 10 THEN <<"0">> ELSE << >>) \o NumberToString(mm)
        \o <<h>> \o p.dayOfMonth \o <<"T">> \o hh \o <<":">> \o p.minute
        \o <<":", "0", "0", "Z">>

DateTimeFormattedWith(h) ==
    rawParts.form = "datetime" =>
        /\ stampPc # "failed"
        /\ stampPc \in {"resolved", "done"} =>
              /\ ~timestamp.isNull
              /\ timestamp.value = ExpectedTimestamp(rawParts, h)

\* C16: for a text "<Weekday>, <Month> <Day>, <Year> at <Hour>:<Minute> <AM|PM>"
\* parseFBTimestamp returns "<Year>-<MM>-<Day>T<H>:<Minute>:00Z" with ASCII hyphens,
\* MM the two-digit month number, H the hour plus 12 for PM and the hour as written
\* otherwise.
C16_DateTimeFormatted == DateTimeFormattedWith(AsciiHyphen)

\* C17: for a text the timestamp pattern does not match, parseFBTimestamp does not
\* throw and the handler continues with timestamp = null.
C17_NoMatchGivesNull ==
    rawParts.form \in {"date", "relative"} =>
        /\ stampPc # "failed"
        /\ stampPc \in {"resolved", "done"} => timestamp.isNull

\* Whether the page holds a comments element: a candidate whose text holds a digit,
\* a comma or a period.
HasCommentsEl(dom) ==
    \E i \in DOMAIN dom.candidates :
        \E k \in DOMAIN dom.candidates[i] : dom.candidates[i][k] \in CountChars

\* Whether the page holds a views element: the likes and the comments element have
\* a common container, and its child mentions "views".
HasViewsEl(dom) ==
    /\ dom.likes.found
    /\ HasCommentsEl(dom)
    /\ dom.views.found
    /\ MatchesViews(dom.views.text)

Zero == [kind |-> "number", m |-> 0, e |-> 0]

ExpectedViews(text) ==
    CASE text = <<"6", ".", "9", "K", " ", "v", "i", "e", "w", "s">> -> Num(6900, 0)
      [] text = <<"1", "2", "0", " ", "v", "i", "e", "w", "s">> -> Num(120, 0)
      [] text = <<"2", ".", "5", "M", " ", "v", "i", "e", "w", "s">> -> Num(25, 5)
      [] text = <<"3", "B", " ", "v", "i", "e", "w", "s">> -> Num(3, 9)
      [] text = <<"1", ".", "2", "T", " ", "v", "i", "e", "w", "s">> -> Num(12, 11)
      [] text = <<"1", ",", "2", "3", "4", " ", " ", "k", " ", "v", "i", "e", "w", "s">>
            -> Num(1234, 3)

\* C19: getPostStats strips thousand separators and applies the unit suffix as a
\* multiplier (k, m, b, t; none: unscaled): "Like: 2,400 people" gives likes 2400,
\* "6,000 comments" gives comments 6000, "6.9K views" gives views 6900, and every
\* other views text its scaled count.
C19_CountsScaled ==
    statsPc = "done" =>
        /\ (statsDom.likes.hasLabel
            /\ statsDom.likes.label = <<"L", "i", "k", "e", ":", " ", "2", ",", "4",
                                        "0", "0", " ", "p", "e", "o", "p", "l", "e">>)
           => postStats.likesCount = Num(2400, 0)
        /\ (statsDom.candidates # << >>
            /\ statsDom.candidates[1] = <<"6", ",", "0", "0", "0", " ", "c", "o", "m",
                                          "m", "e", "n", "t", "s">>)
           => postStats.commentsCount = Num(6000, 0)
        /\ HasViewsEl(statsDom)
           => postStats.viewsCount = ExpectedViews(statsDom.views.text)

\* The paths of the nodes of a structure, the root's being the empty path.
RECURSIVE PathsOf(_)
PathsOf(d) ==
    {<< >>} \cup UNION {{<<k>> \o q : q \in PathsOf(d.items[k])} : k \in DOMAIN d.items}

RECURSIVE NodeAt(_, _)
NodeAt(d, path) == IF path = << >> THEN d ELSE NodeAt(d.items[Head(path)], Tail(path))

\* C20: walkFilter terminates on every finite nested structure of arrays and objects,
\* and returns exactly the nodes for which the predicate is true, each once, the root
\* and the leaf values included.
C20_WalkCollectsMatches ==
    /\ [](\A a, b \in DOMAIN walkResults :
             walkResults[a].path = walkResults[b].path => a = b)
    /\ [](walkPc = "returned" =>
             /\ {r.path : r \in Range(walkResults)}
                    = {q \in PathsOf(walkRoot) : filterFn(walkFilterFn, NodeAt(walkRoot, q))}
             /\ \A r \in Range(walkResults) : r.node = NodeAt(walkRoot, r.path))
    /\ <>(walkPc = "returned")

\* The walk returned the root, an object inside it and a leaf value of that object.
C20_Witness ==
    /\ walkPc = "returned"
    /\ walkFilterFn = "truthy"
    /\ \E a, b, c \in DOMAIN walkResults :
          /\ walkResults[a].path = << >>
          /\ Len(walkResults[b].path) = 1
          /\ walkResults[b].node.kind = "object"
          /\ Len(walkResults[c].path) = 2
          /\ walkResults[c].node.kind = "leaf"
    /\ \E q \in PathsOf(walkRoot) : ~filterFn(walkFilterFn, NodeAt(walkRoot, q))

\* The stat fields that the handler takes from getPostStats.
StatFields(l) ==
    IF l = "FB_MEDIA_PHOTO" THEN {"likesCount", "commentsCount", "viewsCount"}
    ELSE {"likesCount", "commentsCount", "sharesCount", "viewsCount"}

\* C21: in the photo, video and album handlers getPostStats is invoked if and only
\* if at least one of the record's stat fields that it fills is still null after the
\* payload stage.
C21_StatsInvokedIffStatMissing ==
    (label \in MediaLabels /\ pc = "done" /\ dataset # << >>) =>
        (Called("getPostStats")
            <=> \E f \in StatFields(label) : Nullish(afterPayload[f]))

\* The kind of stage an operation belongs to: 1 payload search, 2 interactive page
\* action, 3 static-DOM action, 4 image-metadata fetch, 5 dataset write.
StageOf(c) ==
    CASE c = "searchFbPayloads" -> 1
      [] c \in {"getPhotoFullSize", "getPostTimestampValue",
                "getCommonAncestorFromSelector", "scrollIntoView", "finalWait"} -> 2
      [] c \in {"getPhotoPreview", "getPostStats", "getAuthoredPostMetadata",
                "getAlbumMetadata", "getVideoPostVideo", "getVideoThumb"} -> 3
      [] c = "makeImageMeta" -> 4
      [] c = "pushData" -> 5
      [] OTHER -> 0
Staged == {i \in DOMAIN calls : StageOf(calls[i]) > 0}

StepOf(l, c) ==
    CASE c = "waitForLoadState" -> 0
      [] c = "searchFbPayloads" -> 1
      [] c = "getPhotoFullSize" -> 2
      [] c = "getPhotoPreview" -> 3
      [] c = "getVideoPostVideo" -> 3
      [] c = "getVideoThumb" -> 4
      [] c = "getAlbumMetadata" -> 2
      [] c = "getPostTimestampValue" ->
            (IF l = "FB_MEDIA_PHOTO" THEN 4 ELSE IF l = "FB_MEDIA_VIDEO" THEN 5 ELSE 3)
      [] c = "getPostStats" ->
            (IF l = "FB_MEDIA_PHOTO" THEN 5 ELSE IF l = "FB_MEDIA_VIDEO" THEN 6 ELSE 4)
      [] c = "getAuthoredPostMetadata" -> (IF l = "FB_MEDIA_PHOTO" THEN 6 ELSE 7)
      [] c = "makeImageMeta" -> 8
      [] c \in {"getCommonAncestorFromSelector", "scrollIntoView", "addRequests",
                "finalWait"} -> 8
      [] c = "pushData" -> 9

WithOtherLikes(dom) == {[dom EXCEPT !.likes = l] : l \in LikesEls}
WithOtherCandidates(dom) == {[dom EXCEPT !.candidates = c] : c \in CandidateLists}
WithOtherViews(dom) == {[dom EXCEPT !.views = v] : v \in StatEls}

\* C23 as stated: the three counts are resolved independently, none changing with
\* whether the element of another is found; a views element that is present yields
\* a views count even when the likes or the comments element is absent.
C23_CountsIndependent ==
    statsPc = "done" =>
        /\ \A d \in WithOtherCandidates(statsDom) \cup WithOtherViews(statsDom) :
              PostStats(d).likesCount = postStats.likesCount
        /\ \A d \in WithOtherLikes(statsDom) \cup WithOtherViews(statsDom) :
              PostStats(d).commentsCount = postStats.commentsCount
        /\ \A d \in WithOtherLikes(statsDom) \cup WithOtherCandidates(statsDom) :
              PostStats(d).viewsCount = postStats.viewsCount
        /\ (statsDom.views.found /\ MatchesViews(statsDom.views.text))
           => postStats.viewsCount # NullCount

\* C23, amended: the likes count and the comments count are each resolved
\* independently of the other two elements; the views count is not: it is looked
\* for only under the common ancestor of the likes and the comments element, so a
\* views element that is present yields a views count exactly when both the likes
\* and the comments element are found, and null otherwise.
C23_ViewsNeedLikesAndComments ==
    statsPc = "done" =>
        /\ \A d \in WithOtherCandidates(statsDom) \cup WithOtherViews(statsDom) :
              PostStats(d).likesCount = postStats.likesCount
        /\ \A d \in WithOtherLikes(statsDom) \cup WithOtherViews(statsDom) :
              PostStats(d).commentsCount = postStats.commentsCount
        /\ \A d \in WithOtherLikes(statsDom) \cup WithOtherCandidates(statsDom) :
              (d.likes.found = statsDom.likes.found
               /\ HasCommentsEl(d) = HasCommentsEl(statsDom))
              => PostStats(d).viewsCount = postStats.viewsCount
        /\ (statsDom.views.found /\ MatchesViews(statsDom.views.text))
           => (postStats.viewsCount # NullCount
                  <=> statsDom.likes.found /\ HasCommentsEl(statsDom))

\* A page with a likes element and a views text but no comments element: the likes
\* are counted, the views are not.
C23_Witness ==
    /\ statsPc = "done"
    /\ statsDom.likes.found
    /\ statsDom.candidates = << >>
    /\ statsDom.views.found
    /\ MatchesViews(statsDom.views.text)
    /\ postStats.likesCount # NullCount
    /\ postStats.viewsCount = NullCount

\* C24 as stated: the matches are placed in the result by nesting depth, every node
\* at depth d before any node at depth d+1, so the first element of the result is a
\* shallowest match.
C24_ResultsBreadthFirst ==
    walkPc \in {"loop", "returned"} =>
        /\ \A i \in 1..(Len(walkResults) - 1) :
              Depth(walkResults[i]) <= Depth(walkResults[i + 1])
        /\ \A i \in DOMAIN walkResults : \A q \in DOMAIN walkQueue :
              Depth(walkResults[i]) <= Depth(walkQueue[q])

\* C24, amended: the search visits nodes last-in first-out: the children of a node
\* go to the front of the queue, so the node tested next is the last child of the
\* node just tested, and all that is under a child is tested before the child's
\* earlier siblings. The result holds the matches in that order; its first element
\* is the first match in that order and need not be a shallowest one.
C24_ResultsLastInFirstOut ==
    walkPc \in {"loop", "returned"} =>
        LET expected == MatchesIn(walkFilterFn, VisitOrder([path |-> << >>, node |-> walkRoot]))
        IN  /\ IsPrefix(walkResults, expected)
            /\ walkPc = "returned" => walkResults = expected

\* The walk has returned and the first element of its result is nested deeper than
\* a later one.
C24_Witness ==
    /\ walkPc = "returned"
    /\ \E j \in DOMAIN walkResults : Depth(walkResults[1]) > Depth(walkResults[j])

\* C25: a script block that passes the prefilter and is not valid JSON is parsed by
\* the fallback evaluation, and a block that neither parses nor evaluates contributes
\* no data instead of raising: the search never rejects and its caller never throws.
C25_SearchNeverRaises ==
    /\ searchPc # "rejected"
    /\ callerPc # "threw"
    /\ searchPc = "resolved" =>
           Len(scriptCandidates) = Len(SelectSeq(scriptEls, prefilter))

\* C26: when a step of a photo, video or album invocation throws, the invocation
\* ends there: nothing catches the exception, no record has been or will be given to
\* the dataset, and the requests already given to the queue stay in it.
EndsWhereItThrows ==
    label \in MediaLabels =>
        /\ error' # "none" <=> pc' = "failed"
        /\ pc' = "failed" =>
              /\ dataset' = << >>
              /\ ~\E i \in DOMAIN calls' : calls'[i] = "pushData"
              /\ reqQueue' = reqQueue
        /\ pc = "failed" => UNCHANGED handlerVars
C26_ThrowEmitsNoRecord == [][EndsWhereItThrows]_vars

\* An album invocation that failed after it had submitted requests.
C26_Witness ==
    /\ label = "FB_MEDIA_ALBUM"
    /\ pc = "failed"
    /\ error # "none"
    /\ reqQueue # << >>
    /\ dataset = << >>

\* C27: the FB_GROUP, FB_GROUP_MEDIA and FB_GROUP_MEDIA_TAB handlers give nothing
\* to the dataset; the photo and the video handler give nothing to the queue; a
\* completed FB_GROUP invocation has submitted exactly one request and a completed
\* FB_GROUP_MEDIA invocation exactly one per tab element found.
C27_HandlersKeepToEffects ==
    /\ label \in {"FB_GROUP", "FB_GROUP_MEDIA", "FB_GROUP_MEDIA_TAB"} =>
          dataset = << >> /\ ~Called("pushData")
    /\ label \in {"FB_MEDIA_PHOTO", "FB_MEDIA_VIDEO"} =>
          reqQueue = << >> /\ ~Called("addRequests") /\ ~Called("addRequest")
    /\ label = "FB_GROUP" =>
          /\ Len(reqQueue) = (IF pc = "done" THEN 1 ELSE 0)
          /\ Cardinality(CallsOf("addRequest")) = Len(reqQueue)
          /\ ~Called("addRequests")
    /\ label = "FB_GROUP_MEDIA" =>
          /\ Len(reqQueue) = (IF pc = "done" THEN page.items ELSE 0)
          /\ Cardinality(CallsOf("addRequests")) = (IF pc = "done" THEN 1 ELSE 0)
          /\ ~Called("addRequest")

\* A group's media page with several tab elements, each enqueued.
C27_Witness ==
    /\ label = "FB_GROUP_MEDIA"
    /\ pc = "done"
    /\ page.items >= 2
    /\ Len(reqQueue) = page.items
    /\ dataset = << >>

\* C28: the groupId of a photo record comes from a /groups/<id> prefix of the page's
\* path and from nowhere else; the path of a page given to the photo handler begins
\* with /photo, so the record's groupId is undefined, also when the payloads carry
\* a group id.
C28_PhotoGroupIdUndefined ==
    \A i \in DOMAIN dataset :
        dataset[i].entry.type = "photo" => dataset[i].entry.groupId = Undefined

\* A photo record was written whose payload carried a group id.
C28_Witness ==
    /\ label = "FB_MEDIA_PHOTO"
    /\ Len(dataset) = 1
    /\ page.scripts
    /\ \E f \in DOMAIN afterPayload : ~Nullish(afterPayload[f])
    /\ dataset[1].entry.groupId = Undefined

\* The ticks whose links have been enqueued, and whether each of them found a link.
TicksDone == IF pc \in {"wait", "diff", "links", "enqueue"} THEN tick - 1 ELSE tick
EveryTickRevealed == \A t \in 1..TicksDone : discovered[t] # {}
Returned == pc \in {"push", "done"} \/ error # "none"

\* C29: with outputMaxEntries = N, a pagination run in which every tick reveals at
\* least one new link signals stop after N + 1 ticks at the latest, in the tick that
\* enqueues the (N+1)-th link or before, and then returns (unless a call rejects).
C29_StopsWithinBound ==
    (label \in Paginating /\ outputMaxEntries # {}) =>
        /\ \A n \in outputMaxEntries :
              /\ (EveryTickRevealed /\ shouldContinue /\ error = "none") => TicksDone <= n
              /\ Len(reqQueue) > n => ~shouldContinue
        /\ ~shouldContinue => pc \in {"finalWait", "push", "done", "failed"}
C29_StopsAndReturns ==
    /\ []C29_StopsWithinBound
    /\ (pc = "scroll") ~> (~shouldContinue \/ ~EveryTickRevealed \/ error # "none")
    /\ (pc = "scroll") ~> Returned

\* With outputMaxEntries = MaxEntries, each tick found one link and the tick that
\* enqueued the last one signalled the stop; infiniteScroll has returned.
C29_Witness ==
    /\ label = "FB_GROUP_MEDIA_TAB"
    /\ outputMaxEntries = {MaxEntries}
    /\ pc = "done"
    /\ ~shouldContinue
    /\ tick = MaxEntries + 1
    /\ \A t \in 1..tick : Cardinality(discovered[t]) = 1
    /\ Len(reqQueue) = MaxEntries + 1

\* C30: an exception of a popup's check or click is caught in the callback: the
\* step that catches it leaves the handler's outcome and the timer as they are and
\* takes the callback on to the next popup; a callback that started on an open page
\* ends only when the check of every popup was issued.
CatchKeepsTickGoing ==
    \A t \in DOMAIN ticks :
        ticks'[t].caught # ticks[t].caught =>
            /\ outcome' = outcome
            /\ intervalId' = intervalId
            /\ ticks'[t].caught = ticks[t].caught \cup {ticks[t].popup}
            /\ IF ticks[t].popup = 1
               THEN ticks'[t].popup = 2 /\ ticks'[t].pc = "count"
               ELSE ticks'[t].pc = "done"
EveryPopupChecked ==
    \A t \in EarlyTicks : ticks[t].pc = "done" => ticks[t].checked = Popups
C30_PopupErrorsCaught == [][CatchKeepsTickGoing]_vars /\ []EveryPopupChecked

\* On an open page with the handler running, the first popup's check or click
\* threw, the second popup was checked all the same, and the timer is still set.
C30_Witness ==
    /\ outcome = "running"
    /\ ~isClosed
    /\ intervalId = "set"
    /\ \E t \in EarlyTicks :
          /\ ticks[t].pc = "done"
          /\ ticks[t].caught = {1}
          /\ ticks[t].checked = Popups

\* ------------------------------------------------------------------ specifications
Next ==
    \/ GroupLoad
    \/ GroupEnqueue
    \/ GroupMediaEnqueue
    \/ TabStart
    \/ AlbumStart
    \/ AlbumPayload
    \/ AlbumMetadata
    \/ AlbumTimestamp
    \/ AlbumStats
    \/ AlbumPush
    \/ PhotoStart
    \/ PhotoPayload
    \/ PhotoFullSize
    \/ PhotoPreview
    \/ PostTimestamp
    \/ PhotoStats
    \/ PostMetadata
    \/ ImageMeta
    \/ PhotoPush
    \/ VideoStart
    \/ VideoPayload
    \/ VideoEl
    \/ VideoThumb
    \/ VideoStats
    \/ VideoPush
    \/ LocateContainer
    \/ Scroll
    \/ WaitAfterScroll
    \/ Diff
    \/ GetLinks
    \/ Enqueue
    \/ FinalWait
    \/ Fail

Spec == Init /\ [][Next]_vars

NextRoute ==
    \/ Route
    \/ ReadGroups
    \/ GroupRedirect
    \/ NextRequest

SpecRoute == InitRoute /\ [][NextRoute]_vars

NextPair ==
    \E i \in Invocations :
        \/ PairLocate(i)
        \/ PairScroll(i)
        \/ PairDiff(i)
        \/ PairGetLinks(i)
        \/ PairEnqueue(i)
        \/ PairFinalWait(i)
        \/ PairPush(i)

SpecPair == InitPair /\ [][NextPair]_vars

NextTimer ==
    \/ closePopupsRouterWrapper
    \/ HandlerEnds
    \/ PageCloses
    \/ TickStart
    \/ \E t \in DOMAIN ticks : TickCount(t)
    \/ \E t \in DOMAIN ticks : TickClick(t)

\* setInterval keeps firing the callback while the timer is set.
SpecTimer == InitTimer /\ [][NextTimer]_vars /\ WF_vars(TickStart)

NextStamp ==
    \/ ResolveTimestamp
    \/ EmitWithTimestamp

SpecStamp == InitStamp /\ [][NextStamp]_vars

NextStats == ReadStats

SpecStats == InitStats /\ [][NextStats]_vars

NextWalk ==
    \/ WalkStart
    \/ WalkStep
    \/ WalkReturn

\* walkFilter is synchronous code: once called it runs until it returns.
SpecWalk == InitWalk /\ [][NextWalk]_vars /\ WF_vars(NextWalk)

NextSearch ==
    \/ SearchSelect
    \/ SearchParse
    \/ SearchWalk
    \/ SearchAwaited

SpecSearch == InitSearch /\ [][NextSearch]_vars

NextPaginate ==
    \/ TabStart
    \/ AlbumStart
    \/ AlbumPayload
    \/ AlbumMetadata
    \/ AlbumTimestamp
    \/ AlbumStats
    \/ AlbumPush
    \/ LocateContainer
    \/ Scroll
    \/ WaitAfterScroll
    \/ Diff
    \/ GetLinks
    \/ Enqueue
    \/ FinalWait
    \/ Fail

\* Every awaited call settles, and the event loop then runs what waits for it.
SpecPaginate == InitPaginate /\ [][NextPaginate]_vars /\ WF_vars(NextPaginate)

====
